---------------------------- MODULE Spec2Model ----------------------------
(***************************************************************************)
(* A model of CodeSwarm's quality-gated agent loop (BaseAgent.execute and  *)
(* ImplementationAgent.execute), the model fallback selector, the response *)
(* parser, the file-map parser, the import validator and the deployment    *)
(* step of the workflow coordinator.                                       *)
(*                                                                         *)
(* Text is modelled line by line.  A raw completion and a parsed `code`    *)
(* are sequences of line tokens; a path is a sequence of characters, so    *)
(* that the string operations of the source (startswith, lstrip, normpath) *)
(* are computed and not assumed.                                           *)
(***************************************************************************)
EXTENDS Integers, Sequences, FiniteSets, TLC

(***************************************************************************)
(* Optional values: Python's None is the empty sequence, a value x is <<x>>*)
(***************************************************************************)
None == <<>>
Some(x) == <<x>>
IsNone(o) == o = <<>>
IsSome(o) == o # <<>>
Val(o) == o[1]

\* galileo_score = None on an AgentOutput that was never scored
NoScore == -1

(***************************************************************************)
(* Strings as character sequences                                          *)
(***************************************************************************)
StartsWith(s, p) == Len(s) >= Len(p) /\ SubSeq(s, 1, Len(p)) = p
EndsWith(s, p) == Len(s) >= Len(p) /\ SubSeq(s, Len(s) - Len(p) + 1, Len(s)) = p
Contains(s, p) == \E i \in 1..(Len(s) - Len(p) + 1) : SubSeq(s, i, i + Len(p) - 1) = p

\* str.lstrip(chars): drop leading characters that belong to chars
RECURSIVE LStrip(_, _)
LStrip(s, chars) ==
    IF s # <<>> /\ Head(s) \in chars THEN LStrip(Tail(s), chars) ELSE s

\* str.rstrip(chars)
RECURSIVE RStrip(_, _)
RStrip(s, chars) ==
    IF s # <<>> /\ s[Len(s)] \in chars THEN RStrip(SubSeq(s, 1, Len(s) - 1), chars) ELSE s

\* str.split(sep): the list of pieces between occurrences of the character sep
RECURSIVE SplitChar(_, _)
SplitChar(s, sep) ==
    IF \A i \in 1..Len(s) : s[i] # sep THEN <<s>>
    ELSE LET i == CHOOSE j \in 1..Len(s) : s[j] = sep /\ \A k \in 1..(j - 1) : s[k] # sep
         IN  <<SubSeq(s, 1, i - 1)>> \o SplitChar(SubSeq(s, i + 1, Len(s)), sep)

\* sep.join(parts)
RECURSIVE JoinChar(_, _)
JoinChar(parts, sep) ==
    IF parts = <<>> THEN <<>>
    ELSE IF Len(parts) = 1 THEN parts[1]
    ELSE parts[1] \o <<sep>> \o JoinChar(Tail(parts), sep)

\* index of the last occurrence of c in s, 0 when absent (str.rfind + 1)
RFindPlus1(s, c) ==
    IF \E i \in 1..Len(s) : s[i] = c
    THEN CHOOSE i \in 1..Len(s) : s[i] = c /\ \A k \in (i + 1)..Len(s) : s[k] # c
    ELSE 0

\* os.path.dirname (posixpath)
dirname(p) ==
    LET i == RFindPlus1(p, "/")
        head == SubSeq(p, 1, i)
    IN  IF head # <<>> /\ \E k \in 1..Len(head) : head[k] # "/"
        THEN RStrip(head, {"/"})
        ELSE head

\* os.path.join(a, b) for two components (posixpath)
join(a, b) ==
    IF StartsWith(b, <<"/">>) THEN b
    ELSE IF a = <<>> \/ EndsWith(a, <<"/">>) THEN a \o b
    ELSE a \o <<"/">> \o b

\* the component stack of os.path.normpath
RECURSIVE NormComps(_, _, _)
NormComps(comps, acc, rooted) ==
    IF comps = <<>> THEN acc
    ELSE LET c == Head(comps)
             rest == Tail(comps)
         IN  IF c = <<>> \/ c = <<".">> THEN NormComps(rest, acc, rooted)
             ELSE IF c # <<".", ".">>
                     \/ (~rooted /\ acc = <<>>)
                     \/ (acc # <<>> /\ acc[Len(acc)] = <<".", ".">>)
                  THEN NormComps(rest, Append(acc, c), rooted)
             ELSE IF acc # <<>> THEN NormComps(rest, SubSeq(acc, 1, Len(acc) - 1), rooted)
             ELSE NormComps(rest, acc, rooted)

\* os.path.normpath (posixpath)
normpath(p) ==
    IF p = <<>> THEN <<".">>
    ELSE LET rooted == StartsWith(p, <<"/">>)
             two == StartsWith(p, <<"/", "/">>) /\ ~StartsWith(p, <<"/", "/", "/">>)
             body == JoinChar(NormComps(SplitChar(p, "/"), <<>>, rooted), "/")
             lead == IF two THEN <<"/", "/">> ELSE IF rooted THEN <<"/">> ELSE <<>>
         IN  IF lead \o body = <<>> THEN <<".">> ELSE lead \o body

(***************************************************************************)
(* Lines.  k is the kind of line:                                          *)
(*   marker     a file marker "<pre> File: <a>"   (pre is //, # or slash-  *)
(*              star)                                                      *)
(*   fence      a line "```<tag>" (tag is "" for a bare fence)                *)
(*   blank      an empty or all-whitespace line                            *)
(*   text       any other line; w tells which keyword class it contains    *)
(*              ("html": <html / <!DOCTYPE html>, "js": function/const/    *)
(*              let/var, "py": def/import/class..:, "plain": none)         *)
(*   import     a line holding one file reference a; pre is the import     *)
(*              style: "es" (import .. from '..'), "require", "css"        *)
(*              (@import), "pyrel" (from .x import), "href" (href= / src=) *)
(*              or "bare" (import '..' without a from clause)              *)
(*   reasoning  a line that starts "Reasoning:"                            *)
(***************************************************************************)
Marker(pre, path) == [k |-> "marker", pre |-> pre, a |-> path, tag |-> "", w |-> "plain"]
Fence(tag) == [k |-> "fence", pre |-> "", a |-> <<>>, tag |-> tag, w |-> "plain"]
Blank == [k |-> "blank", pre |-> "", a |-> <<>>, tag |-> "", w |-> "plain"]
Text(w) == [k |-> "text", pre |-> "", a |-> <<>>, tag |-> "", w |-> w]
Import(style, ref) == [k |-> "import", pre |-> style, a |-> ref, tag |-> "", w |-> "py"]
Reasoning == [k |-> "reasoning", pre |-> "", a |-> <<>>, tag |-> "", w |-> "plain"]

\* text.strip() on a block of lines: leading and trailing blank lines go
RECURSIVE StripLeft(_)
StripLeft(ls) == IF ls # <<>> /\ Head(ls).k = "blank" THEN StripLeft(Tail(ls)) ELSE ls
RECURSIVE StripRight(_)
StripRight(ls) ==
    IF ls # <<>> /\ ls[Len(ls)].k = "blank" THEN StripRight(SubSeq(ls, 1, Len(ls) - 1)) ELSE ls
Strip(ls) == StripRight(StripLeft(ls))

\* the positions of the fence lines of ls from position from on, in order
RECURSIVE FencePositions(_, _)
FencePositions(ls, from) ==
    IF from > Len(ls) THEN <<>>
    ELSE IF ls[from].k = "fence" THEN <<from>> \o FencePositions(ls, from + 1)
    ELSE FencePositions(ls, from + 1)

HasFence(ls) == \E i \in 1..Len(ls) : ls[i].k = "fence"

\* str.lower() on a fence tag
Lower(tag) ==
    CASE tag = "JS" -> "js"
      [] tag = "Python" -> "python"
      [] OTHER -> tag

\* the first line of a fenced block, as text.split("```")[1].split("\n")[0] sees it:
\* the rest of the opening fence line, i.e. the tag (an empty line for a bare fence)
TagLine(tag) == IF tag = "" THEN Blank ELSE Text("plain")

\* text.split("```")[1] with its language line removed when that line (lowered
\* when lower) is one of langs; otherwise the whole block, tag line included
FencedBlock(ls, langs, lower) ==
    LET f == FencePositions(ls, 1)
        last == IF Len(f) >= 2 THEN f[2] - 1 ELSE Len(ls)
        block == SubSeq(ls, f[1] + 1, last)
        tag == ls[f[1]].tag
    IN  IF (IF lower THEN Lower(tag) ELSE tag) \in langs
        THEN block
        ELSE <<TagLine(tag)>> \o block

(***************************************************************************)
(* BaseAgent._parse_response                                               *)
(***************************************************************************)
BaseLanguages == {"python", "javascript", "typescript", "java", "go", "rust"}

parse_response_base(content) ==
    IF HasFence(content)
    THEN LET f == FencePositions(content, 1)
             third == IF Len(f) >= 3 THEN f[3] - 1 ELSE Len(content)
         IN  [code |-> Strip(FencedBlock(content, BaseLanguages, FALSE)),
              reasoning |-> IF Len(f) >= 2
                            THEN Strip(SubSeq(content, f[2] + 1, third))
                            ELSE <<>>]
    ELSE [code |-> <<>>, reasoning |-> Strip(content)]

(***************************************************************************)
(* ImplementationAgent._parse_response                                     *)
(***************************************************************************)
language_identifiers ==
    {"html", "css", "scss", "sass", "less",
     "javascript", "js", "jsx", "typescript", "ts", "tsx",
     "python", "py", "java", "kotlin", "kt",
     "go", "rust", "rs", "c", "cpp", "c++", "csharp", "cs",
     "php", "ruby", "rb", "perl", "swift",
     "bash", "sh", "shell", "zsh", "fish",
     "json", "yaml", "yml", "toml", "xml", "ini", "env",
     "sql", "postgresql", "mysql", "sqlite",
     "dart", "flutter", "vue", "svelte",
     "markdown", "md", "txt", "dockerfile", "makefile",
     "graphql", "proto", "protobuf"}

\* a line the response parser's file_pattern matches: // file: or # file:
IsResponseMarker(l) == l.k = "marker" /\ l.pre \in {"//", "#"}

RECURSIVE ResponseMarkerPositions(_, _)
ResponseMarkerPositions(ls, from) ==
    IF from > Len(ls) THEN <<>>
    ELSE IF IsResponseMarker(ls[from]) THEN <<from>> \o ResponseMarkerPositions(ls, from + 1)
    ELSE ResponseMarkerPositions(ls, from + 1)

EmitSection_dropping_empty(filename, file_content) ==
    LET code == IF HasFence(file_content)
                THEN Strip(FencedBlock(file_content, language_identifiers, TRUE))
                ELSE Strip(file_content)
    IN  IF code = <<>> THEN <<>> ELSE <<Marker("#", filename)>> \o code \o <<Blank>>

\* one file section re-emitted under the canonical marker "# File: <filename>"
EmitSection(filename, file_content) ==
    LET code == IF HasFence(file_content)
                THEN Strip(FencedBlock(file_content, language_identifiers, TRUE))
                ELSE Strip(file_content)
    IN  <<Marker("#", filename)>> \o (IF code = <<>> THEN <<Blank>> ELSE code) \o <<Blank>>

RECURSIVE EmitSections(_, _, _)
EmitSections(content, ms, i) ==
    IF i > Len(ms) THEN <<>>
    ELSE LET last == IF i < Len(ms) THEN ms[i + 1] - 1 ELSE Len(content)
         IN  EmitSection(content[ms[i]].a, SubSeq(content, ms[i] + 1, last))
             \o EmitSections(content, ms, i + 1)

\* the extension of the wrapper marker the single-file fallback adds
DetectExtension(code) ==
    IF \E i \in 1..Len(code) : code[i].w = "html" THEN <<"h", "t", "m", "l">>
    ELSE IF \E i \in 1..Len(code) : code[i].w = "js" THEN <<"j", "s">>
    ELSE IF \E i \in 1..Len(code) : code[i].w = "py" THEN <<"p", "y">>
    ELSE <<"h", "t", "m", "l">>

MultiFileReasoning(content, ms) ==
    LET rs == {i \in 1..Len(content) : content[i].k = "reasoning"}
        lastBody == SubSeq(content, ms[Len(ms)] + 1, Len(content))
        f == FencePositions(lastBody, 1)
    IN  IF rs # {}
        THEN LET r == CHOOSE i \in rs : \A j \in rs : i <= j
             IN  Strip(<<Text("plain")>> \o SubSeq(content, r + 1, Len(content)))
        ELSE IF Len(f) >= 2
        THEN Strip(SubSeq(lastBody, f[Len(f)] + 1, Len(lastBody)))
        ELSE <<>>

parse_response_impl(content) ==
    LET ms == ResponseMarkerPositions(content, 1)
    IN  IF ms # <<>>
        THEN [code |-> Strip(EmitSections(content, ms, 1)),
              reasoning |-> MultiFileReasoning(content, ms)]
        ELSE LET base == parse_response_base(content)
             IN  IF base.code # <<>>
                 THEN [code |-> <<Marker("#", <<"i", "n", "d", "e", "x", ".">>
                                               \o DetectExtension(base.code))>>
                                \o base.code,
                       reasoning |-> base.reasoning]
                 ELSE base

\* agent._parse_response(content) as its caller sees it: the pair, or the ValueError
\* ImplementationAgent raises when markers were found and the combined code is empty
_parse_response(agent, content) ==
    IF agent = "implementation"
    THEN LET parsed == parse_response_impl(content)
         IN  IF ResponseMarkerPositions(content, 1) # <<>> /\ parsed.code = <<>>
             THEN [raised |-> "ValueError", code |-> <<>>, reasoning |-> <<>>]
             ELSE [raised |-> "none", code |-> parsed.code, reasoning |-> parsed.reasoning]
    ELSE LET parsed == parse_response_base(content)
         IN  [raised |-> "none", code |-> parsed.code, reasoning |-> parsed.reasoning]

(***************************************************************************)
(* _parse_code_to_files (ImplementationAgent and FullCodeSwarmWorkflow)    *)
(* A file map is the dict in insertion order: a sequence of                *)
(* [path, content] with pairwise different paths.                          *)
(***************************************************************************)
HasKey(files, path) == \E i \in 1..Len(files) : files[i].path = path

Get(files, path) == files[CHOOSE i \in 1..Len(files) : files[i].path = path].content

\* files[path] = content
Put(files, path, content) ==
    IF HasKey(files, path)
    THEN [i \in 1..Len(files) |->
            IF files[i].path = path THEN [path |-> path, content |-> content] ELSE files[i]]
    ELSE Append(files, [path |-> path, content |-> content])

RECURSIVE Without(_, _)
Without(files, path) ==
    IF files = <<>> THEN <<>>
    ELSE IF Head(files).path = path THEN Tail(files)
    ELSE <<Head(files)>> \o Without(Tail(files), path)

Keys(files) == {files[i].path : i \in 1..Len(files)}

\* "save previous file": only a named file with collected lines and a non-empty body
SaveFile(files, current_file, current_content) ==
    IF current_file # <<>> /\ current_content # <<>> /\ Strip(current_content) # <<>>
    THEN Put(files, current_file, Strip(current_content))
    ELSE files

RECURSIVE ScanLines(_, _, _, _, _)
ScanLines(lines, i, files, current_file, current_content) ==
    IF i > Len(lines) THEN SaveFile(files, current_file, current_content)
    ELSE IF lines[i].k = "marker"
    THEN ScanLines(lines, i + 1, SaveFile(files, current_file, current_content),
                   lines[i].a, <<>>)
    ELSE IF current_file # <<>>
    THEN ScanLines(lines, i + 1, files, current_file, Append(current_content, lines[i]))
    ELSE ScanLines(lines, i + 1, files, current_file, current_content)

IsAbsolute(filepath) ==
    StartsWith(filepath, <<"/">>) \/ (Len(filepath) > 1 /\ filepath[2] = ":")

\* filepath.lstrip("/").split(":", 1)[-1].lstrip("/")
CleanPath(filepath) ==
    LET s == LStrip(filepath, {"/"})
        c == IF \E i \in 1..Len(s) : s[i] = ":"
             THEN SubSeq(s, (CHOOSE i \in 1..Len(s) : s[i] = ":" /\ \A k \in 1..(i - 1) : s[k] # ":") + 1,
                         Len(s))
             ELSE s
    IN  LStrip(c, {"/"})

\* for filepath in list(files.keys()): absolute paths are re-keyed
RECURSIVE RewriteAbsolute(_, _, _)
RewriteAbsolute(files, keys, i) ==
    IF i > Len(keys) THEN files
    ELSE IF IsAbsolute(keys[i])
    THEN RewriteAbsolute(Put(Without(files, keys[i]), CleanPath(keys[i]), Get(files, keys[i])),
                         keys, i + 1)
    ELSE RewriteAbsolute(files, keys, i + 1)

\* ok = FALSE stands for the ValueError "no files extracted"
parse_code_to_files(code) ==
    LET files == ScanLines(code, 1, <<>>, <<>>, <<>>)
    IN  IF files # <<>>
        THEN [ok |-> TRUE,
              files |-> RewriteAbsolute(files, [i \in 1..Len(files) |-> files[i].path], 1)]
        ELSE [ok |-> FALSE, files |-> <<>>]

\* the raw text of a completion taken to a file map, as ImplementationAgent.execute
\* does: _parse_response, then _parse_code_to_files on the code it returned
parse_files(content) ==
    LET parsed == _parse_response("implementation", content)
        parsed_files == parse_code_to_files(parsed.code)
    IN  IF parsed.raised # "none" THEN [raised |-> parsed.raised, files |-> <<>>]
        ELSE IF ~parsed_files.ok THEN [raised |-> "ValueError", files |-> <<>>]
        ELSE [raised |-> "none", files |-> parsed_files.files]

(***************************************************************************)
(* _validate_file_imports (ImplementationAgent and FullCodeSwarmWorkflow)  *)
(***************************************************************************)
\* the import patterns in the order the source tries them
import_patterns == <<"es", "require", "css", "pyrel", "href">>

SkipWords ==
    { <<"h", "t", "t", "p", ":", "/", "/">>,
      <<"h", "t", "t", "p", "s", ":", "/", "/">>,
      <<"n", "o", "d", "e", "_", "m", "o", "d", "u", "l", "e", "s">>,
      <<"@", "/">>,
      <<"r", "e", "a", "c", "t">>,
      <<"v", "u", "e">>,
      <<"n", "e", "x", "t">>,
      <<"v", "i", "t", "e">>,
      <<"e", "x", "p", "r", "e", "s", "s">> }

CodeExtensions ==
    { <<".", "j", "s">>, <<".", "j", "s", "x">>, <<".", "t", "s">>,
      <<".", "t", "s", "x">>, <<".", "c", "s", "s">>, <<".", "p", "y">> }

ExtraSuffixes ==
    << <<".", "j", "s">>, <<".", "j", "s", "x">>, <<".", "t", "s">>, <<".", "t", "s", "x">>,
       <<"/", "i", "n", "d", "e", "x", ".", "j", "s">>,
       <<"/", "i", "n", "d", "e", "x", ".", "j", "s", "x">> >>

AssetExtensions ==
    { <<".", "c", "s", "s">>, <<".", "j", "s">>, <<".", "p", "n", "g">>,
      <<".", "j", "p", "g">>, <<".", "s", "v", "g">> }

DotHtml == <<".", "h", "t", "m", "l">>
Http == <<"h", "t", "t", "p">>
SrcSlash == <<"s", "r", "c", "/">>

\* "Skip external imports" and "Skip absolute imports": the import is not checked
SkippedImport(source_file, import_path) ==
    \/ \E skip \in SkipWords : Contains(import_path, skip)
    \/ /\ ~StartsWith(import_path, <<".">>)
       /\ ~StartsWith(import_path, <<"/">>)
       /\ ~(EndsWith(source_file, DotHtml) /\ ~StartsWith(import_path, Http))

\* "Resolve relative path"
ResolveImport(source_file, import_path) ==
    LET source_dir == IF \E i \in 1..Len(source_file) : source_file[i] = "/"
                      THEN dirname(source_file) ELSE <<>>
    IN  IF StartsWith(import_path, <<".", "/">>) \/ StartsWith(import_path, <<".", ".", "/">>)
        THEN IF source_dir # <<>>
             THEN normpath(join(source_dir, import_path))
             ELSE LStrip(import_path, {".", "/"})
        ELSE import_path

\* "Add common extensions if not present"
PossiblePaths(full_path) ==
    IF \E ext \in CodeExtensions : EndsWith(full_path, ext)
    THEN <<full_path>>
    ELSE <<full_path>> \o [i \in 1..Len(ExtraSuffixes) |-> full_path \o ExtraSuffixes[i]]

\* possible_path.replace('\\', '/')
NormalizeSeparators(path) == [i \in 1..Len(path) |-> IF path[i] = "\\" THEN "/" ELSE path[i]]

\* "Check if any variant exists in generated files"
VariantExists(files, possible_path) ==
    LET normalized_path == NormalizeSeparators(possible_path)
    IN  \/ HasKey(files, normalized_path)
        \/ HasKey(files, SrcSlash \o normalized_path)
        \/ HasKey(files, LStrip(normalized_path, {".", "/"}))
        \/ HasKey(files, LStrip(normalized_path, {"s", "r", "c", "/"}))
        \/ HasKey(files, SrcSlash \o LStrip(normalized_path, {".", "/"}))

\* "Only report if it looks like a local file import"
LooksLocal(source_file, import_path) ==
    \/ StartsWith(import_path, <<".">>)
    \/ /\ EndsWith(source_file, DotHtml)
       /\ ~StartsWith(import_path, Http)
       /\ \E ext \in AssetExtensions : EndsWith(import_path, ext)

\* whether (source_file, import_path) is appended to missing_files
IsMissing(files, source_file, import_path) ==
    /\ ~SkippedImport(source_file, import_path)
    /\ LET pp == PossiblePaths(ResolveImport(source_file, import_path))
       IN  \A i \in 1..Len(pp) : ~VariantExists(files, pp[i])
    /\ LooksLocal(source_file, import_path)

\* re.findall(pattern, content) for one pattern: the references of that style, in order
RECURSIVE FindAll(_, _, _)
FindAll(content, style, i) ==
    IF i > Len(content) THEN <<>>
    ELSE IF content[i].k = "import" /\ content[i].pre = style
    THEN <<content[i].a>> \o FindAll(content, style, i + 1)
    ELSE FindAll(content, style, i + 1)

RECURSIVE MissingAmong(_, _, _, _)
MissingAmong(files, source_file, matches, i) ==
    IF i > Len(matches) THEN <<>>
    ELSE (IF IsMissing(files, source_file, matches[i])
          THEN << <<source_file, matches[i]>> >> ELSE <<>>)
         \o MissingAmong(files, source_file, matches, i + 1)

RECURSIVE MissingInFile(_, _, _)
MissingInFile(files, f, p) ==
    IF p > Len(import_patterns) THEN <<>>
    ELSE MissingAmong(files, files[f].path, FindAll(files[f].content, import_patterns[p], 1), 1)
         \o MissingInFile(files, f, p + 1)

RECURSIVE MissingFrom(_, _)
MissingFrom(files, f) ==
    IF f > Len(files) THEN <<>>
    ELSE MissingInFile(files, f, 1) \o MissingFrom(files, f + 1)

\* the list of (source_file, missing_import) pairs
validate_file_imports(files) == MissingFrom(files, 1)

(***************************************************************************)
(* The completions the provider may return.  Each is one raw response:     *)
(*   PlainText      prose only: no fence, no marker                        *)
(*   SingleFenced   one ```python block followed by prose                  *)
(*   TwoFiles       // file: a.js and // file: b.js, b.js importing './a'  *)
(*   MissingRef     // file: a.js whose body imports './missing'           *)
(*   MarkerOnly     a marker line followed by nothing                      *)
(*   EmptyThenAbs   a file with an empty body, then "# file: /abs.js"      *)
(***************************************************************************)
PathA == <<"a", ".", "j", "s">>
PathB == <<"b", ".", "j", "s">>
PathAbs == <<"/", "a", "b", "s", ".", "j", "s">>
RefA == <<".", "/", "a">>
RefMissing == <<".", "/", "m", "i", "s", "s", "i", "n", "g">>

PlainText == <<Text("plain")>>
SingleFenced == <<Fence("python"), Text("py"), Fence(""), Text("plain")>>
TwoFiles ==
    <<Marker("//", PathA), Fence("js"), Text("js"), Fence(""),
      Marker("//", PathB), Fence("JS"), Import("es", RefA), Fence(""), Reasoning>>
MissingRef == <<Marker("//", PathA), Import("es", RefMissing)>>
MarkerOnly == <<Marker("#", PathA)>>
EmptyThenAbs == <<Marker("//", PathA), Blank, Marker("#", PathAbs), Text("js")>>

Contents == {PlainText, SingleFenced, TwoFiles, MissingRef, MarkerOnly, EmptyThenAbs}

(***************************************************************************)
(* ModelSelector                                                           *)
(***************************************************************************)
TaskTypes ==
    {"web_frontend", "backend_api", "data_science", "mobile", "devops", "database", "general"}

TASK_MODEL_PREFERENCES ==
    [t \in TaskTypes |->
        CASE t = "web_frontend" -> <<"gpt-5-pro", "claude-sonnet-4.5", "claude-opus-4.1">>
          [] t = "backend_api" -> <<"claude-opus-4.1", "gpt-5-pro", "claude-sonnet-4.5">>
          [] t = "data_science" -> <<"gpt-5-pro", "claude-opus-4.1", "claude-sonnet-4.5">>
          [] t = "mobile" -> <<"gpt-5-pro", "claude-sonnet-4.5", "claude-opus-4.1">>
          [] t = "devops" -> <<"claude-opus-4.1", "gpt-5-pro", "claude-sonnet-4.5">>
          [] t = "database" -> <<"claude-opus-4.1", "claude-sonnet-4.5", "gpt-5-pro">>
          [] t = "general" -> <<"claude-sonnet-4.5", "gpt-5-pro", "claude-opus-4.1">>]

Models == {"gpt-5-pro", "claude-opus-4.1", "claude-sonnet-4.5", "grok-4"}

\* str.lower() on the ASCII letters; a task is a TLA+ string
RECURSIVE lower(_)
lower(task) ==
    LET ascii_uppercase == "ABCDEFGHIJKLMNOPQRSTUVWXYZ"
        ascii_lowercase == "abcdefghijklmnopqrstuvwxyz"
    IN  IF task = "" THEN ""
        ELSE LET c == SubSeq(task, 1, 1)
                 at == {i \in 1..Len(ascii_uppercase) : SubSeq(ascii_uppercase, i, i) = c}
             IN  (IF at = {} THEN c
                  ELSE LET i == CHOOSE i \in at : TRUE IN SubSeq(ascii_lowercase, i, i))
                 \o lower(SubSeq(task, 2, Len(task)))

\* the keyword lists of detect_task_type, by the names they have there
keywords ==
    [web_keywords |->
        {"website", "web", "html", "css", "react", "vue", "angular", "frontend", "ui",
         "interface", "page", "landing", "portfolio", "button", "form", "navbar", "header",
         "footer", "responsive"},
     backend_keywords |->
        {"api", "backend", "server", "endpoint", "database query", "rest", "graphql",
         "microservice", "authentication", "crud"},
     ds_keywords |->
        {"machine learning", "ml", "data analysis", "pandas", "numpy", "tensorflow",
         "pytorch", "model", "prediction", "classification", "regression", "neural network"},
     mobile_keywords |->
        {"mobile app", "ios", "android", "swift", "kotlin", "react native", "flutter", "mobile"},
     devops_keywords |->
        {"docker", "kubernetes", "k8s", "ci/cd", "pipeline", "terraform", "ansible",
         "infrastructure", "deployment"},
     db_keywords |->
        {"database", "sql", "postgresql", "mysql", "mongodb", "query", "schema", "migration",
         "orm"}]

any_in(kws, task_lower) == \E kw \in kws : Contains(task_lower, kw)

detect_task_type_backend_first(task) ==
    LET task_lower == lower(task)
    IN  IF any_in(keywords.backend_keywords, task_lower) THEN "backend_api"
        ELSE IF any_in(keywords.web_keywords, task_lower) THEN "web_frontend"
        ELSE IF any_in(keywords.ds_keywords, task_lower) THEN "data_science"
        ELSE IF any_in(keywords.mobile_keywords, task_lower) THEN "mobile"
        ELSE IF any_in(keywords.devops_keywords, task_lower) THEN "devops"
        ELSE IF any_in(keywords.db_keywords, task_lower) THEN "database"
        ELSE "general"

detect_task_type(task) ==
    LET task_lower == lower(task)
    IN  IF any_in(keywords.web_keywords, task_lower) THEN "web_frontend"
        ELSE IF any_in(keywords.backend_keywords, task_lower) THEN "backend_api"
        ELSE IF any_in(keywords.ds_keywords, task_lower) THEN "data_science"
        ELSE IF any_in(keywords.mobile_keywords, task_lower) THEN "mobile"
        ELSE IF any_in(keywords.devops_keywords, task_lower) THEN "devops"
        ELSE IF any_in(keywords.db_keywords, task_lower) THEN "database"
        ELSE "general"

\* task descriptions: two words joined by a space
Tasks ==
    LET Words == {"", "Sort", "numbers", "HTML", "API", "Train", "ML", "MySQL", "iOS", "Docker",
                  "SQL", "database", "query", "Build", "game", "Sketch"}
    IN  {IF w2 = "" THEN w1 ELSE w1 \o " " \o w2 : w1 \in Words, w2 \in Words}

get_model_sequence(task_type) ==
    IF task_type \in TaskTypes
    THEN TASK_MODEL_PREFERENCES[task_type]
    ELSE TASK_MODEL_PREFERENCES["general"]

\* model_sequence.index(current_model): the first position, 0 for the ValueError
IndexOf(seq, x) ==
    IF \E i \in 1..Len(seq) : seq[i] = x
    THEN CHOOSE i \in 1..Len(seq) : seq[i] = x /\ \A j \in 1..(i - 1) : seq[j] # x
    ELSE 0

get_next_model_wrapping(current_model, task_type, attempts_with_current) ==
    LET model_sequence == get_model_sequence(task_type)
        current_index == IndexOf(model_sequence, current_model)
    IN  IF model_sequence = <<>> THEN None
        ELSE Some(model_sequence[(current_index % Len(model_sequence)) + 1])

get_next_model_null_when_unknown(current_model, task_type, attempts_with_current) ==
    LET model_sequence == get_model_sequence(task_type)
        current_index == IndexOf(model_sequence, current_model)
    IN  IF current_index # 0 /\ current_index + 1 <= Len(model_sequence)
        THEN Some(model_sequence[current_index + 1])
        ELSE None

\* Some(model), or None when there are no more fallbacks
get_next_model(current_model, task_type, attempts_with_current) ==
    LET model_sequence == get_model_sequence(task_type)
        current_index == IndexOf(model_sequence, current_model)
    IN  IF current_index # 0
        THEN IF current_index + 1 <= Len(model_sequence)
             THEN Some(model_sequence[current_index + 1])
             ELSE None
        ELSE IF model_sequence # <<>> THEN Some(model_sequence[1]) ELSE None

should_fallback_at_budget(iterations_completed, max_iterations, best_score, quality_threshold, score_improvement) ==
    \/ iterations_completed = max_iterations /\ best_score < quality_threshold
    \/ score_improvement < 0 /\ iterations_completed >= 2
    \/ score_improvement < 1 /\ iterations_completed = max_iterations - 1

should_fallback(iterations_completed, max_iterations, best_score, quality_threshold, score_improvement) ==
    \/ iterations_completed >= max_iterations /\ best_score < quality_threshold
    \/ score_improvement < 0 /\ iterations_completed >= 2
    \/ score_improvement < 1 /\ iterations_completed >= max_iterations - 1

(***************************************************************************)
(* OpenRouterClient.complete.  One request to the provider ends in one of  *)
(* these ways: a 200 response ("ok"), asyncio.TimeoutError ("timeout"), a  *)
(* rate-limit (429) or 5xx response whose body is JSON ("http_error"), or  *)
(* such a response whose body is not JSON ("http_error_not_json": reading  *)
(* it with response.json() raises aiohttp.ContentTypeError, a ClientError).*)
(***************************************************************************)
RequestOutcomes == {"ok", "timeout", "http_error", "http_error_not_json"}

\* the failures the provider contract calls transient
TransientFailures == {"timeout", "http_error", "http_error_not_json"}

\* "except (aiohttp.ClientError, asyncio.TimeoutError) as e"
ClientErrors == {"timeout", "http_error_not_json"}

\* "max_retries = kwargs.pop('max_retries', 3)"
max_retries == 3

\* "if response.status != 200: raise Exception(...)": what one request gives
\* the retry loop, a result or the class of the exception it raises
_standard_completion(outcome) ==
    IF outcome = "ok" THEN "result"
    ELSE IF outcome \in ClientErrors THEN "ClientError"
    ELSE "Exception"

\* a backoff that does not grow
retry_delay_constant(attempt) == 2 ^ 0

\* "retry_delay = 1.0" and "retry_delay *= 2" after every sleep: the delay, in
\* seconds, in force at the attempt of the given index (from 0)
retry_delay(attempt) == 2 ^ attempt

\* "for attempt in range(max_retries)": the requests made from the given
\* attempt on, whether the call returns a response or raises, and the
\* asyncio.sleep calls it makes
RECURSIVE complete_from(_, _)
complete_from(outcomes, attempt) ==
    IF attempt >= max_retries
    THEN [raised |-> TRUE, failure |-> outcomes[max_retries], attempts |-> max_retries,
          slept |-> <<>>]
    ELSE LET r == _standard_completion(outcomes[attempt + 1])
         IN  IF r = "result"
             THEN [raised |-> FALSE, failure |-> "none", attempts |-> attempt + 1,
                   slept |-> <<>>]
             ELSE IF r = "ClientError"
             THEN LET rest == complete_from(outcomes, attempt + 1)
                  IN  IF attempt < max_retries - 1
                      THEN [rest EXCEPT !.slept = <<retry_delay(attempt)>> \o @]
                      ELSE rest
             ELSE [raised |-> TRUE, failure |-> outcomes[attempt + 1],
                   attempts |-> attempt + 1, slept |-> <<>>]

complete(outcomes) == complete_from(outcomes, 0)

\* the ways a call of complete can end, over all the outcomes of its requests
CompleteResults == {complete(outcomes) : outcomes \in [1..max_retries -> RequestOutcomes]}

\* no call of complete has raised
NoProviderError == [raised |-> FALSE, failure |-> "none", attempts |-> 0, slept |-> <<>>]

(***************************************************************************)
(* Bounds and program constants                                            *)
(***************************************************************************)
\* the largest max_iterations a call is made with
MaxIterations == 3
MaxModelAttemptsUncapped == 3 + 1

\* max_model_attempts
MaxModelAttempts == 3
\* the default quality_threshold
QualityThreshold == 90
\* the score given when the evaluator is absent or raises
DefaultScore == 85
\* the scores the evaluator may return
Scores == {0, 70, 71, 90, 95}

Agents == {"architecture", "implementation", "security", "testing"}

\* the task categories execute is called with: one whose sequence starts with each
\* of the three models of TASK_MODEL_PREFERENCES
CalledTaskTypes == {"web_frontend", "backend_api", "general"}

\* the model each agent is constructed with
ConfiguredModel(agent) ==
    CASE agent = "architecture" -> "claude-sonnet-4.5"
      [] agent = "implementation" -> "gpt-5-pro"
      [] agent = "security" -> "claude-opus-4.1"
      [] agent = "testing" -> "grok-4"

\* the dataclass AgentOutput (latency_ms left out; confidence in percent)
AgentOutput(agent_name, code, reasoning, confidence, model_used, galileo_score, iterations, parsed_files) ==
    [agent_name |-> agent_name, code |-> code, reasoning |-> reasoning,
     confidence |-> confidence, model_used |-> model_used,
     galileo_score |-> galileo_score, iterations |-> iterations,
     parsed_files |-> parsed_files]

\* a validation error dict: type is its distinguishing key
ValidationError(type, missing) == [type |-> type, missing |-> missing]

(***************************************************************************)
(* State                                                                   *)
(*   cfg      the agent and the arguments of this execute call             *)
(*   pc       "loop" while execute runs, then "returned" or "raised"       *)
(*   iteration .. last_validation_error   the locals and fields of execute *)
(*   result   the value returned (None is Python's None)                   *)
(*   prompt   the user prompt of the latest completion call                *)
(*   calls, tried, last, reached, afterReach, produced, scored             *)
(*            history: completion calls per model, the models invoked in   *)
(*            order, what the latest iteration did, the first output that  *)
(*            scored at or above the threshold, the calls made after it,   *)
(*            whether an output was created, whether the evaluator         *)
(*            returned a score                                             *)
(*   wf       the coordinator's deployment step                            *)
(***************************************************************************)
VARIABLES cfg, pc, iteration, best_output, best_score, first_iteration_score, model,
          model_attempt_number, last_code, last_validation_error, result, error,
          prompt, calls, tried, last, reached, afterReach, produced, scored, wf,
          provider, run_number,
          coordinator, stage, entered, loop, outputs, state, testing_context, report,
          observe_logger, call, ret, neo4j

vars == <<cfg, pc, iteration, best_output, best_score, first_iteration_score, model,
          model_attempt_number, last_code, last_validation_error, result, error,
          prompt, calls, tried, last, reached, afterReach, produced, scored, wf,
          provider, run_number,
          coordinator, stage, entered, loop, outputs, state, testing_context, report,
          observe_logger, call, ret, neo4j>>

\* the state of a coordinator run
coordinatorVars == <<coordinator, stage, entered, loop, outputs, state, testing_context,
                    report, observe_logger>>

loopVars == <<iteration, best_output, best_score, first_iteration_score, model,
              model_attempt_number, last_code, last_validation_error, result, error,
              prompt, calls, tried, last, reached, afterReach, produced, scored>>

NoPrompt == [kind |-> "none", preview |-> <<>>, score |-> NoScore, error |-> None]
NoIteration == [kind |-> "none", iteration |-> 0, model |-> "", score |-> NoScore,
                evaluated |-> FALSE, error |-> None]

\* the calls of execute: no caller passes enable_model_fallback, which defaults to
\* True, and ImplementationAgent.execute never reads the task type
\* the thresholds a run is configured with: the default, and a lower one set
\* through the configuration menu (any value from 0 to 100 can be entered)
QualityThresholds == {DefaultScore, QualityThreshold}

Configs ==
    {c \in [agent : Agents, task_type : CalledTaskTypes, max_iterations : 1..MaxIterations,
            quality_threshold : QualityThresholds, has_evaluator : BOOLEAN,
            enable_model_fallback : {TRUE}] :
        c.agent = "implementation" => c.task_type = "web_frontend"}

(***************************************************************************)
(* The coordinators (CodeSwarmWorkflow of orchestration/workflow.py and     *)
(* FullCodeSwarmWorkflow of orchestration/full_workflow.py): the values a   *)
(* run starts from                                                         *)
(***************************************************************************)
\* the two loops that "asyncio.gather(impl_task, security_task)" runs together
ParallelAgents == {"implementation", "security"}

\* an agent's execute has not ended in this run
NotRun == [kind |-> "not_run", galileo_score |-> NoScore, iterations |-> 0]

\* CodeSwarmWorkflow.run's initial_state: an absent output is "None", an
\* absent entry of galileo_scores is NoScore
InitialState(vision_score) ==
    [architecture_output |-> "None", implementation_output |-> "None",
     security_output |-> "None", testing_output |-> "None",
     galileo_scores |-> [a \in Agents \cup {"vision"} |->
                            IF a = "vision" THEN vision_score ELSE NoScore],
     improvement_iterations |-> 0, final_code |-> <<>>, synthesis_complete |-> FALSE]

\* no context has been built for the testing agent
NoContext ==
    [architecture_output |-> "None", implementation_output |-> "None",
     security_output |-> "None"]

\* nothing has been reported: the run has not ended
NoReport ==
    [complete |-> FALSE, sum |-> 0, count |-> 0, quality_threshold_met |-> FALSE,
     neo4j |-> FALSE, pattern_id |-> "None"]

\* the ObserveWorkflows object of the one GalileoEvaluator all agents were
\* constructed with: the loops that logged a workflow to it, and the loops
\* whose upload_workflows call is running in the executor
EmptyLogger == [added |-> {}, uploads |-> {}]

\* the Neo4j database as first connected to: no node of either label, and its clock
\* datetime() counted in days
EmptyDatabase == [TavilyCache |-> {}, CodePattern |-> {}, datetime |-> 0]

\* the variables of a coordinator run in a behaviour that has no coordinator
CoordinatorIdle ==
    /\ coordinator = [name |-> "none", quality_threshold |-> QualityThreshold]
    /\ stage = "none"
    /\ entered = <<>>
    /\ loop = [a \in ParallelAgents |-> "idle"]
    /\ outputs = [a \in Agents |-> NotRun]
    /\ state = InitialState(NoScore)
    /\ testing_context = NoContext
    /\ report = NoReport
    /\ observe_logger = EmptyLogger

Init ==
    /\ cfg \in Configs
    /\ pc = "loop"
    /\ iteration = 0
    /\ best_output = None
    /\ best_score = 0
    /\ first_iteration_score = 0
    /\ model = ConfiguredModel(cfg.agent)
    /\ model_attempt_number = 1
    /\ last_code = <<>>
    /\ last_validation_error = None
    /\ result = None
    /\ error = "none"
    /\ prompt = NoPrompt
    /\ calls = [m \in Models |-> 0]
    /\ tried = <<>>
    /\ last = NoIteration
    /\ reached = None
    /\ afterReach = 0
    /\ produced = FALSE
    /\ scored = FALSE
    /\ provider = NoProviderError
    /\ run_number = 1
    /\ neo4j = EmptyDatabase
    /\ CoordinatorIdle
    /\ call = [fn |-> "none"]
    /\ ret = [done |-> FALSE]
    /\ wf \in {w \in [deploy : BOOLEAN, daytona : BOOLEAN, stage : {"pending"},
                      arg : {None}, files : {None}, run_command : {""}] :
                  cfg.agent # "implementation" => ~w.deploy /\ ~w.daytona}

(***************************************************************************)
(* Prompts.  A prompt is what it is built from: its kind ("task" for       *)
(* build_user_prompt, "improvement" for _build_improvement_prompt), the    *)
(* previous code it quotes, the score it states, and the validation error  *)
(* it describes (None when it describes none).                             *)
(***************************************************************************)
\* BaseAgent.execute's choice of prompt and BaseAgent._build_improvement_prompt
BuildPromptBase(it, previous_output, previous_score, code, err) ==
    IF it = 1
    THEN [kind |-> "task", preview |-> <<>>, score |-> NoScore, error |-> None]
    ELSE [kind |-> "improvement",
          preview |-> IF IsSome(previous_output) THEN Val(previous_output).code ELSE code,
          score |-> previous_score,
          error |-> IF IsSome(err)
                       /\ Val(err).type \in {"missing_files", "parsing_error",
                                             "missing_required_files"}
                    THEN err ELSE None]

BuildPromptImplNoFeedback(it, previous_output, previous_score, err) ==
    IF it = 1 \/ IsNone(previous_output)
    THEN [kind |-> "task", preview |-> <<>>, score |-> NoScore, error |-> None]
    ELSE [kind |-> "improvement", preview |-> Val(previous_output).code,
          score |-> previous_score, error |-> None]

\* ImplementationAgent.execute's choice of prompt and its _build_improvement_prompt
BuildPromptImpl(it, previous_output, previous_score, err) ==
    LET described == IF IsSome(err) /\ Val(err).type \in {"missing_files", "parsing_error"}
                     THEN err ELSE None
    IN  IF it = 1 \/ IsNone(previous_output)
        THEN [kind |-> "task", preview |-> <<>>, score |-> NoScore,
              error |-> IF it > 1 THEN described ELSE None]
        ELSE [kind |-> "improvement", preview |-> Val(previous_output).code,
              score |-> previous_score, error |-> described]

(***************************************************************************)
(* The bookkeeping every completion call and evaluator call does           *)
(***************************************************************************)
Completed(withEval) ==
    /\ calls' = [calls EXCEPT ![model] = @ + 1]
    /\ tried' = IF \E i \in 1..Len(tried) : tried[i] = model THEN tried ELSE Append(tried, model)
    /\ afterReach' = afterReach
                     + (IF IsSome(reached) THEN 1 + (IF withEval THEN 1 ELSE 0) ELSE 0)

Iterated(kind, evaluated, score, err) ==
    last' = [kind |-> kind, iteration |-> iteration + 1, model |-> model, score |-> score,
             evaluated |-> evaluated, error |-> err]

(***************************************************************************)
(* BaseAgent.execute: one action per way an iteration of the while loop    *)
(* can go.  Each action is the whole iteration, from the loop test to the  *)
(* continue, break or return that ends it.  No agent of the repository     *)
(* overrides _validate_output, so validation_result is None in every       *)
(* iteration and the branch "if validation_result is not None" is never    *)
(* entered.                                                                *)
(***************************************************************************)
\* code, reasoning = self._parse_response(content), for each completion
BaseParsed == {parse_response_base(content) : content \in Contents}

\* a loop test that leaves the loop after a model switch
BaseLoop_single_attempt ==
    /\ pc = "loop"
    /\ cfg.agent # "implementation"
    /\ iteration < cfg.max_iterations
    /\ model_attempt_number <= 1

BaseLoop ==
    /\ pc = "loop"
    /\ cfg.agent # "implementation"
    /\ iteration < cfg.max_iterations
    /\ model_attempt_number <= MaxModelAttempts

BasePrompt ==
    BuildPromptBase(iteration + 1, best_output, best_score, last_code, last_validation_error)

\* "if not code or not code.strip()"
BaseEmpty ==
    /\ BaseLoop
    /\ \E parsed \in BaseParsed :
        LET it == iteration + 1
        IN  /\ parsed.code = <<>>
            /\ prompt' = BasePrompt
            /\ last_code' = parsed.code
            /\ Completed(FALSE)
            /\ Iterated("empty", FALSE, NoScore, None)
            /\ iteration' = it
            /\ IF it >= cfg.max_iterations /\ cfg.enable_model_fallback
               THEN \* temp_output becomes best_output, then break: the loop is left
                    \* and execute ends without a return statement
                    /\ best_output' = Some(AgentOutput(cfg.agent, <<>>, <<>>, 0, model,
                                                       NoScore, it, None))
                    /\ best_score' = 0
                    /\ pc' = "returned"
                    /\ result' = None
                    /\ error' = error
               ELSE IF it >= cfg.max_iterations
               THEN /\ pc' = "raised"
                    /\ error' = "empty_code"
                    /\ UNCHANGED <<best_output, best_score, result>>
               ELSE UNCHANGED <<best_output, best_score, pc, result, error>>
            /\ UNCHANGED <<cfg, run_number, neo4j, coordinatorVars, call, ret, provider, first_iteration_score, model, model_attempt_number,
                           last_validation_error, reached, produced, scored, wf>>

\* "Check if we've exhausted iterations for this model" to the end of the loop body,
\* entered with the iteration number it, the best output bo and best score bs after
\* this iteration, first_iteration_score fis and this iteration's output out
BaseEndOfIteration(it, bo, bs, fis, out) ==
    LET validation_failed == IsSome(bo) /\ Val(bo).parsed_files = None
        score_improvement == bs - fis
        next_model == get_next_model(model, cfg.task_type, it)
        switch == /\ cfg.enable_model_fallback
                  /\ bs < cfg.quality_threshold \/ validation_failed
                  /\ should_fallback(it, cfg.max_iterations, bs, cfg.quality_threshold,
                                     score_improvement)
                  /\ IsSome(next_model)
                  /\ Val(next_model) # model
    IN  IF it < cfg.max_iterations
        THEN /\ iteration' = it
             /\ first_iteration_score' = fis
             /\ UNCHANGED <<model, model_attempt_number, pc, result>>
        ELSE IF switch
        THEN /\ model' = Val(next_model)
             /\ model_attempt_number' = model_attempt_number + 1
             /\ iteration' = 0
             /\ first_iteration_score' = 0
             \* continue: the while test is made with the new attempt number, and a
             \* loop that is left this way ends execute without a return statement
             /\ IF model_attempt_number + 1 <= MaxModelAttempts
                THEN UNCHANGED <<pc, result>>
                ELSE pc' = "returned" /\ result' = None
        ELSE /\ iteration' = it
             /\ first_iteration_score' = fis
             /\ pc' = "returned"
             /\ result' = IF IsSome(bo) THEN bo ELSE Some(out)
             /\ UNCHANGED <<model, model_attempt_number>>

\* an output that is given no score
BaseOutput_without_score(parsed, it, score) ==
    AgentOutput(cfg.agent, parsed.code, parsed.reasoning, 85, model, NoScore, it, None)

\* the output of an iteration whose code is present
BaseOutput(parsed, it, score) ==
    AgentOutput(cfg.agent, parsed.code, parsed.reasoning, 85, model, score, it, None)

ThresholdMetStrict(score, quality_threshold) == score > quality_threshold

\* "if score >= quality_threshold"
ThresholdMet(score, quality_threshold) == score >= quality_threshold

\* the evaluator returns a score
BaseScored ==
    /\ BaseLoop
    /\ cfg.has_evaluator
    /\ \E parsed \in BaseParsed, score \in Scores :
        LET it == iteration + 1
            out == BaseOutput(parsed, it, score)
            better == score > best_score
            bo == IF better THEN Some(out) ELSE best_output
            bs == IF better THEN score ELSE best_score
            fis == IF it = 1 THEN score ELSE first_iteration_score
        IN  /\ parsed.code # <<>>
            /\ prompt' = BasePrompt
            /\ last_code' = parsed.code
            /\ Completed(TRUE)
            /\ Iterated("scored", TRUE, score, None)
            /\ produced' = TRUE
            /\ scored' = TRUE
            /\ best_output' = bo
            /\ best_score' = bs
            /\ reached' = IF IsNone(reached) /\ score >= cfg.quality_threshold
                          THEN Some(out) ELSE reached
            /\ IF ThresholdMet(score, cfg.quality_threshold)
               THEN /\ pc' = "returned"
                    /\ result' = Some(out)
                    /\ iteration' = it
                    /\ first_iteration_score' = fis
                    /\ UNCHANGED <<model, model_attempt_number>>
               ELSE BaseEndOfIteration(it, bo, bs, fis, out)
            /\ UNCHANGED <<cfg, run_number, neo4j, coordinatorVars, call, ret, provider, last_validation_error, error, wf>>

\* the evaluator raises: "except Exception" gives the output the default score
BaseEvalRaises ==
    /\ BaseLoop
    /\ cfg.has_evaluator
    /\ \E parsed \in BaseParsed :
        LET it == iteration + 1
            out == BaseOutput(parsed, it, DefaultScore)
        IN  /\ parsed.code # <<>>
            /\ prompt' = BasePrompt
            /\ last_code' = parsed.code
            /\ Completed(TRUE)
            /\ Iterated("eval_raised", TRUE, DefaultScore, None)
            /\ produced' = TRUE
            /\ scored' = scored
            /\ BaseEndOfIteration(it, best_output, best_score, first_iteration_score, out)
            /\ UNCHANGED <<cfg, run_number, neo4j, coordinatorVars, call, ret, provider, best_output, best_score, last_validation_error, error,
                           reached, wf>>

\* "No evaluator - accept after 1 iteration"
BaseNoEvaluator ==
    /\ BaseLoop
    /\ ~cfg.has_evaluator
    /\ \E parsed \in BaseParsed :
        LET it == iteration + 1
            out == BaseOutput(parsed, it, DefaultScore)
        IN  /\ parsed.code # <<>>
            /\ prompt' = BasePrompt
            /\ last_code' = parsed.code
            /\ Completed(FALSE)
            /\ Iterated("unscored", FALSE, DefaultScore, None)
            /\ produced' = TRUE
            /\ scored' = scored
            /\ iteration' = it
            /\ pc' = "returned"
            /\ result' = Some(out)
            /\ UNCHANGED <<cfg, run_number, neo4j, coordinatorVars, call, ret, provider, best_output, best_score, first_iteration_score, model,
                           model_attempt_number, last_validation_error, error, reached, wf>>

(***************************************************************************)
(* ImplementationAgent.execute: its own loop, with file validation before  *)
(* an output is created and with no model fallback.                        *)
(***************************************************************************)
\* the try block "Parse and validate files BEFORE creating output": "ok" with the
\* parsed files, "missing" with the missing references, or "parse" for the ValueError
\* of _parse_code_to_files
ImplValidationNoImportCheck(code) ==
    LET parsed == parse_code_to_files(code)
    IN  IF ~parsed.ok
        THEN [kind |-> "parse", files |-> <<>>, missing |-> <<>>]
        ELSE [kind |-> "ok", files |-> parsed.files, missing |-> <<>>]

ImplValidation(code) ==
    LET parsed == parse_code_to_files(code)
        missing_files == IF parsed.ok THEN validate_file_imports(parsed.files) ELSE <<>>
    IN  IF ~parsed.ok
        THEN [kind |-> "parse", files |-> <<>>, missing |-> <<>>]
        ELSE IF missing_files # <<>>
        THEN [kind |-> "missing", files |-> parsed.files, missing |-> missing_files]
        ELSE [kind |-> "ok", files |-> parsed.files, missing |-> <<>>]

\* code, reasoning = self._parse_response(content), for each completion
ImplParsed == {parse_response_impl(content) : content \in Contents}

ImplLoop ==
    /\ pc = "loop"
    /\ cfg.agent = "implementation"
    /\ iteration < cfg.max_iterations

ImplPrompt ==
    BuildPromptImpl(iteration + 1, best_output, best_score, last_validation_error)

\* "Max iterations reached": what follows the while loop
ImplEndOfIteration(it, bo, out) ==
    IF it < cfg.max_iterations
    THEN UNCHANGED <<pc, result>>
    ELSE /\ pc' = "returned"
         /\ result' = IF IsSome(bo) THEN bo ELSE Some(out)

\* "if not code or not code.strip()"
ImplEmpty ==
    /\ ImplLoop
    /\ \E parsed \in ImplParsed :
        LET it == iteration + 1
        IN  /\ parsed.code = <<>>
            /\ prompt' = ImplPrompt
            /\ Completed(FALSE)
            /\ Iterated("empty", FALSE, NoScore, None)
            /\ iteration' = it
            /\ IF it >= cfg.max_iterations
               THEN pc' = "raised" /\ error' = "empty_code"
               ELSE UNCHANGED <<pc, error>>
            /\ UNCHANGED <<cfg, run_number, neo4j, coordinatorVars, call, ret, provider, best_output, best_score, first_iteration_score, model,
                           model_attempt_number, last_code, last_validation_error, result, reached, produced, scored, wf>>

\* the files do not parse, or reference files that were not generated
ImplInvalid ==
    /\ ImplLoop
    /\ \E parsed \in ImplParsed :
        LET it == iteration + 1
            v == ImplValidation(parsed.code)
            found == IF v.kind = "missing"
                     THEN ValidationError("missing_files", v.missing)
                     ELSE ValidationError("parsing_error", <<>>)
        IN  /\ parsed.code # <<>>
            /\ v.kind # "ok"
            /\ prompt' = ImplPrompt
            /\ Completed(FALSE)
            /\ Iterated("invalid", FALSE, NoScore, Some(found))
            /\ iteration' = it
            /\ IF it >= cfg.max_iterations
               THEN \* the ValueError raised for missing files inside the try block is
                    \* caught by its "except ValueError", which records a parsing
                    \* error and raises the parse failure
                    /\ last_validation_error' = Some(ValidationError("parsing_error", <<>>))
                    /\ pc' = "raised"
                    /\ error' = "unparseable"
               ELSE /\ last_validation_error' = Some(found)
                    /\ UNCHANGED <<pc, error>>
            /\ UNCHANGED <<cfg, run_number, neo4j, coordinatorVars, call, ret, provider, best_output, best_score, first_iteration_score, model,
                           model_attempt_number, last_code, result, reached, produced, scored,
                           wf>>

\* the output of an iteration whose files validated
ImplOutput(parsed, files, it, score) ==
    AgentOutput(cfg.agent, parsed.code, parsed.reasoning, 85, model, score, it, Some(files))

\* the evaluator returns a score
ImplScored ==
    /\ ImplLoop
    /\ cfg.has_evaluator
    /\ \E parsed \in ImplParsed, score \in Scores :
        LET it == iteration + 1
            v == ImplValidation(parsed.code)
            out == ImplOutput(parsed, v.files, it, score)
            better == score > best_score
            bo == IF better THEN Some(out) ELSE best_output
        IN  /\ parsed.code # <<>>
            /\ v.kind = "ok"
            /\ prompt' = ImplPrompt
            /\ last_validation_error' = None
            /\ Completed(TRUE)
            /\ Iterated("scored", TRUE, score, None)
            /\ produced' = TRUE
            /\ scored' = TRUE
            /\ best_output' = bo
            /\ best_score' = IF better THEN score ELSE best_score
            /\ iteration' = it
            /\ reached' = IF IsNone(reached) /\ score >= cfg.quality_threshold
                          THEN Some(out) ELSE reached
            /\ IF ThresholdMet(score, cfg.quality_threshold)
               THEN pc' = "returned" /\ result' = Some(out)
               ELSE ImplEndOfIteration(it, bo, out)
            /\ UNCHANGED <<cfg, run_number, neo4j, coordinatorVars, call, ret, provider, first_iteration_score, model, model_attempt_number, last_code,
                           error, wf>>

\* the evaluator raises: the output gets the default score and the loop goes on
ImplEvalRaises ==
    /\ ImplLoop
    /\ cfg.has_evaluator
    /\ \E parsed \in ImplParsed :
        LET it == iteration + 1
            v == ImplValidation(parsed.code)
            out == ImplOutput(parsed, v.files, it, DefaultScore)
        IN  /\ parsed.code # <<>>
            /\ v.kind = "ok"
            /\ prompt' = ImplPrompt
            /\ last_validation_error' = None
            /\ Completed(TRUE)
            /\ Iterated("eval_raised", TRUE, DefaultScore, None)
            /\ produced' = TRUE
            /\ scored' = scored
            /\ iteration' = it
            /\ ImplEndOfIteration(it, best_output, out)
            /\ UNCHANGED <<cfg, run_number, neo4j, coordinatorVars, call, ret, provider, best_output, best_score, first_iteration_score, model,
                           model_attempt_number, last_code, error, reached, wf>>

\* no evaluator: the first validated output is returned with the default score
ImplNoEvaluator ==
    /\ ImplLoop
    /\ ~cfg.has_evaluator
    /\ \E parsed \in ImplParsed :
        LET it == iteration + 1
            v == ImplValidation(parsed.code)
            out == ImplOutput(parsed, v.files, it, DefaultScore)
        IN  /\ parsed.code # <<>>
            /\ v.kind = "ok"
            /\ prompt' = ImplPrompt
            /\ last_validation_error' = None
            /\ Completed(FALSE)
            /\ Iterated("unscored", FALSE, DefaultScore, None)
            /\ produced' = TRUE
            /\ scored' = scored
            /\ iteration' = it
            /\ pc' = "returned"
            /\ result' = Some(out)
            /\ UNCHANGED <<cfg, run_number, neo4j, coordinatorVars, call, ret, provider, best_output, best_score, first_iteration_score, model,
                           model_attempt_number, last_code, error, reached, wf>>

\* "response = await self.client.complete(...)" raises: execute has no handler
\* around the call, so the exception leaves execute in the iteration that was
\* just counted
CompleteRaises ==
    /\ BaseLoop \/ ImplLoop
    /\ \E r \in CompleteResults :
            /\ r.raised
            /\ provider' = r
            /\ iteration' = iteration + 1
            /\ prompt' = IF cfg.agent = "implementation" THEN ImplPrompt ELSE BasePrompt
            /\ pc' = "raised"
            /\ error' = "provider_error"
            /\ UNCHANGED <<cfg, run_number, neo4j, coordinatorVars, call, ret, best_output, best_score,
                           first_iteration_score, model, model_attempt_number, last_code,
                           last_validation_error, result, calls, tried, last, reached,
                           afterReach, produced, scored, wf>>

(***************************************************************************)
(* FullCodeSwarmWorkflow: step 8, "Deploy to Daytona (if requested)"       *)
(***************************************************************************)
PackageJson == <<"p", "a", "c", "k", "a", "g", "e", ".", "j", "s", "o", "n">>
MainPy == <<"m", "a", "i", "n", ".", "p", "y">>
AppPy == <<"a", "p", "p", ".", "p", "y">>
ServerPy == <<"s", "e", "r", "v", "e", "r", ".", "p", "y">>
MainGo == <<"m", "a", "i", "n", ".", "g", "o">>
CargoToml == <<"C", "a", "r", "g", "o", ".", "t", "o", "m", "l">>

\* 'word' in package_json.lower()
Mentions(file_content, word) ==
    \E i \in 1..Len(file_content) : file_content[i].k = "text" /\ file_content[i].w = word

\* _determine_run_command
determine_run_command(files) ==
    LET filenames == Keys(files)
        AnyEndsWith(suffix) == \E f \in filenames : EndsWith(f, suffix)
        Has(name) == name \in filenames
    IN  IF Has(PackageJson)
        THEN IF Mentions(Get(files, PackageJson), "next")
             THEN "npm install && npm run dev -- -p 3000"
             ELSE IF Mentions(Get(files, PackageJson), "vite")
             THEN "npm install && npm run dev -- --port 3000"
             ELSE IF Mentions(Get(files, PackageJson), "react-scripts")
             THEN "PORT=3000 npm install && npm start"
             ELSE "npm install && npm start"
        ELSE IF AnyEndsWith(<<".", "p", "y">>)
        THEN IF Has(MainPy) THEN "python3 main.py"
             ELSE IF Has(AppPy) THEN "python3 app.py"
             ELSE IF Has(ServerPy) THEN "python3 server.py"
             ELSE "python3 -m http.server 3000"
        ELSE IF AnyEndsWith(DotHtml)
        THEN "python3 -m http.server 3000"
        ELSE IF AnyEndsWith(<<".", "g", "o">>)
        THEN IF Has(MainGo) THEN "go run main.go" ELSE "go run ."
        ELSE IF Has(CargoToml)
        THEN "cargo run"
        ELSE "python3 -m http.server 3000"

\* FullCodeSwarmWorkflow._parse_code_to_files: the coordinator's copy of the agent's
\* parser, which also raises ValueError (ok = FALSE) for missing file references
wf_parse_code_to_files(code) ==
    LET parsed == parse_code_to_files(code)
    IN  IF parsed.ok /\ validate_file_imports(parsed.files) # <<>>
        THEN [ok |-> FALSE, files |-> <<>>]
        ELSE parsed

\* what the sandbox service may do with a deployment
DaytonaOutcomes == {"no_workspace", "deployed", "deploy_error"}

\* "if deploy and self.daytona: deployment = await self._deploy_to_daytona(
\*  implementation_output.code, task)", with _deploy_to_daytona itself
Deploy ==
    /\ pc = "returned"
    /\ cfg.agent = "implementation"
    /\ IsSome(result)
    /\ wf.stage = "pending"
    /\ \E outcome \in DaytonaOutcomes :
        LET code == Val(result).code
            parsed == wf_parse_code_to_files(code)
            files == parsed.files
        IN  IF ~(wf.deploy /\ wf.daytona)
            THEN wf' = [wf EXCEPT !.stage = "skipped"]
            ELSE IF ~parsed.ok \/ files = <<>> \/ outcome = "no_workspace"
            THEN \* "except Exception", "if not files", "if not workspace": None
                 wf' = [wf EXCEPT !.stage = "failed", !.arg = Some(code)]
            ELSE \* daytona.deploy_code(workspace_id, files=files, run_command)
                 wf' = [wf EXCEPT !.stage = IF outcome = "deployed" THEN "deployed"
                                            ELSE "failed",
                                  !.arg = Some(code),
                                  !.files = Some(files),
                                  !.run_command = determine_run_command(files)]
    /\ UNCHANGED <<cfg, run_number, neo4j, coordinatorVars, call, ret, provider, pc>>
    /\ UNCHANGED loopVars

(***************************************************************************)
(* One run of a coordinator, from the architecture stage on.  An agent's   *)
(* execute is seen from its caller: it returns an AgentOutput, returns     *)
(* None (BaseAgent only, when the models are exhausted) or raises.  The    *)
(* code of an agent's output is written as the agent's name, the string    *)
(* f"Error: {e}" as "Error".                                               *)
(***************************************************************************)
\* the scores and iteration counts of the outputs the agents return
RunScores == {0, 80, 100}

RunIterations == {1, 2}

ExecuteOutcomes(agent) ==
    {[kind |-> "output", galileo_score |-> s, iterations |-> i] :
        s \in RunScores, i \in RunIterations}
    \cup {[kind |-> "raised", galileo_score |-> NoScore, iterations |-> 0]}
    \cup (IF agent = "implementation" THEN {}
          ELSE {[kind |-> "none", galileo_score |-> NoScore, iterations |-> 0]})

\* "output.galileo_score or 85.0"
score_or_default(galileo_score) == IF galileo_score = 0 THEN DefaultScore ELSE galileo_score

\* the coordinators as they are constructed: CodeSwarmWorkflow passes
\* quality_threshold=90.0 to every agent, FullCodeSwarmWorkflow its own
Coordinators ==
    {[name |-> "CodeSwarmWorkflow", quality_threshold |-> QualityThreshold]}
    \cup {[name |-> "FullCodeSwarmWorkflow", quality_threshold |-> t] : t \in QualityThresholds}

\* the variables of the agent loop, which a coordinator run leaves alone
agentVars == <<cfg, pc, iteration, best_output, best_score, first_iteration_score, model,
               model_attempt_number, last_code, last_validation_error, result, error,
               prompt, calls, tried, last, reached, afterReach, produced, scored, wf,
               provider, run_number, neo4j>>

\* the variables of the agent loop in a behaviour that follows no agent loop
AgentIdle ==
    /\ cfg = [agent |-> "architecture", task_type |-> "general", max_iterations |-> 1,
              quality_threshold |-> QualityThreshold, has_evaluator |-> TRUE,
              enable_model_fallback |-> TRUE]
    /\ pc = "idle"
    /\ iteration = 0
    /\ best_output = None
    /\ best_score = 0
    /\ first_iteration_score = 0
    /\ model = ConfiguredModel("architecture")
    /\ model_attempt_number = 1
    /\ last_code = <<>>
    /\ last_validation_error = None
    /\ result = None
    /\ error = "none"
    /\ prompt = NoPrompt
    /\ calls = [m \in Models |-> 0]
    /\ tried = <<>>
    /\ last = NoIteration
    /\ reached = None
    /\ afterReach = 0
    /\ produced = FALSE
    /\ scored = FALSE
    /\ provider = NoProviderError
    /\ run_number = 1
    /\ neo4j = EmptyDatabase
    /\ wf = [deploy |-> FALSE, daytona |-> FALSE, stage |-> "pending", arg |-> None,
             files |-> None, run_command |-> ""]

\* a run that has reached the architecture stage; the vision stage has left a
\* score in the state or not
WorkflowInit ==
    /\ AgentIdle
    /\ call = [fn |-> "none"]
    /\ ret = [done |-> FALSE]
    /\ coordinator \in Coordinators
    /\ stage = "architecture"
    /\ entered = <<>>
    /\ loop = [a \in ParallelAgents |-> "idle"]
    /\ outputs = [a \in Agents |-> NotRun]
    /\ state \in {InitialState(v) : v \in IF coordinator.name = "CodeSwarmWorkflow"
                                          THEN {NoScore, 80} ELSE {NoScore}}
    /\ testing_context = NoContext
    /\ report = NoReport
    /\ observe_logger = EmptyLogger

\* what a stage of CodeSwarmWorkflow writes when its agent returned r
stage_written(st, agent, key, r) ==
    [st EXCEPT ![key] = agent,
               !.galileo_scores[agent] = score_or_default(r.galileo_score),
               !.improvement_iterations = @ + r.iterations]

\* CodeSwarmWorkflow._architecture_stage; FullCodeSwarmWorkflow.execute, step 5
ArchitectureStage ==
    /\ stage = "architecture"
    /\ entered' = Append(entered, "architecture")
    /\ \E r \in ExecuteOutcomes("architecture") :
        /\ outputs' = [outputs EXCEPT !["architecture"] = r]
        /\ IF coordinator.name = "CodeSwarmWorkflow"
           THEN /\ state' = IF r.kind = "output"
                            THEN stage_written(state, "architecture", "architecture_output", r)
                            ELSE \* "except Exception as e", reached by a raise and by
                                 \* the AttributeError of None.code
                                 [state EXCEPT !.architecture_output = "Error"]
                /\ stage' = "parallel"
           ELSE /\ state' = state
                /\ stage' = IF r.kind = "output" THEN "parallel" ELSE "aborted"
    /\ UNCHANGED <<coordinator, loop, testing_context, report, observe_logger>>
    /\ UNCHANGED <<agentVars, call, ret>>

\* the two execute coroutines are created and handed to asyncio.gather
ParallelStart ==
    /\ stage = "parallel"
    /\ entered' = Append(entered, "parallel")
    /\ loop' = [a \in ParallelAgents |-> "running"]
    /\ stage' = "gather"
    /\ UNCHANGED <<coordinator, outputs, state, testing_context, report, observe_logger>>
    /\ UNCHANGED <<agentVars, call, ret>>

\* GalileoEvaluator.evaluate up to its await: add_workflow, add_llm and conclude
\* write to self.observe_logger, then upload_workflows is started in the executor
LoopEvaluates(a) ==
    /\ loop[a] = "running"
    /\ loop' = [loop EXCEPT ![a] = "uploading"]
    /\ observe_logger' = [added |-> observe_logger.added \cup {a},
                          uploads |-> observe_logger.uploads \cup {a}]
    /\ UNCHANGED <<coordinator, stage, entered, outputs, state, testing_context, report>>
    /\ UNCHANGED <<agentVars, call, ret>>

\* the executor's upload_workflows call ends (by returning or by raising)
UploadReturns(a) ==
    /\ loop[a] = "uploading"
    /\ loop' = [loop EXCEPT ![a] = "running"]
    /\ observe_logger' = [observe_logger EXCEPT !.uploads = @ \ {a}]
    /\ UNCHANGED <<coordinator, stage, entered, outputs, state, testing_context, report>>
    /\ UNCHANGED <<agentVars, call, ret>>

\* the execute coroutine of one of the two loops ends
LoopEnds(a) ==
    /\ loop[a] = "running"
    /\ \E r \in ExecuteOutcomes(a) :
        /\ outputs' = [outputs EXCEPT ![a] = r]
        /\ loop' = [loop EXCEPT ![a] = IF r.kind = "raised" THEN "raised" ELSE "returned"]
    /\ UNCHANGED <<coordinator, stage, entered, state, testing_context, report,
                   observe_logger>>
    /\ UNCHANGED <<agentVars, call, ret>>

\* _parallel_impl_security_stage after gather returned two outputs
parallel_written(st, impl_output, security_output) ==
    stage_written(stage_written(st, "implementation", "implementation_output", impl_output),
                  "security", "security_output", security_output)

parallel_failed_clearing(st) ==
    [st EXCEPT !.architecture_output = "Error", !.implementation_output = "Error",
               !.security_output = "Error"]

\* _parallel_impl_security_stage, "except Exception as e"
parallel_failed(st) ==
    [st EXCEPT !.implementation_output = "Error", !.security_output = "Error"]

\* "impl_output, security_output = await asyncio.gather(impl_task, security_task)"
\* returns: both coroutines returned.  A None from the security agent raises
\* AttributeError at its ".code".
GatherReturns ==
    /\ stage = "gather"
    /\ \A a \in ParallelAgents : loop[a] = "returned"
    /\ LET both == \A a \in ParallelAgents : outputs[a].kind = "output"
       IN  IF coordinator.name = "CodeSwarmWorkflow"
           THEN /\ state' = IF both
                            THEN parallel_written(state, outputs["implementation"],
                                                  outputs["security"])
                            ELSE parallel_failed(state)
                /\ stage' = "testing"
           ELSE /\ state' = state
                /\ stage' = IF both THEN "testing" ELSE "aborted"
    /\ UNCHANGED <<coordinator, entered, loop, outputs, testing_context, report,
                   observe_logger>>
    /\ UNCHANGED <<agentVars, call, ret>>

\* gather raises as soon as one coroutine has raised; it does not wait for the
\* other one and does not cancel it
GatherRaises ==
    /\ stage = "gather"
    /\ \E a \in ParallelAgents : loop[a] = "raised"
    /\ IF coordinator.name = "CodeSwarmWorkflow"
       THEN /\ state' = parallel_failed(state)
            /\ stage' = "testing"
       ELSE /\ state' = state
            /\ stage' = "aborted"
    /\ UNCHANGED <<coordinator, entered, loop, outputs, testing_context, report,
                   observe_logger>>
    /\ UNCHANGED <<agentVars, call, ret>>

\* the code of an agent's output as FullCodeSwarmWorkflow reads it from its local
output_code(agent) == IF outputs[agent].kind = "output" THEN agent ELSE "None"

\* CodeSwarmWorkflow._testing_stage; FullCodeSwarmWorkflow.execute, step 7
TestingStage ==
    /\ stage = "testing"
    /\ entered' = Append(entered, "testing")
    /\ testing_context' =
           IF coordinator.name = "CodeSwarmWorkflow"
           THEN [architecture_output |-> state.architecture_output,
                 implementation_output |-> state.implementation_output,
                 security_output |-> state.security_output]
           ELSE [architecture_output |-> output_code("architecture"),
                 implementation_output |-> output_code("implementation"),
                 security_output |-> output_code("security")]
    /\ \E r \in ExecuteOutcomes("testing") :
        /\ outputs' = [outputs EXCEPT !["testing"] = r]
        /\ IF coordinator.name = "CodeSwarmWorkflow"
           THEN /\ state' = IF r.kind = "output"
                            THEN stage_written(state, "testing", "testing_output", r)
                            ELSE [state EXCEPT !.testing_output = "Error"]
                /\ stage' = "synthesis"
           ELSE /\ state' = state
                /\ stage' = IF r.kind = "output" THEN "aggregate" ELSE "aborted"
    /\ UNCHANGED <<coordinator, loop, report, observe_logger>>
    /\ UNCHANGED <<agentVars, call, ret>>

\* sum(state["galileo_scores"].values()) and len(state["galileo_scores"])
RECURSIVE SumScores(_, _)
SumScores(scores, keys) ==
    IF keys = {} THEN 0
    ELSE LET k == CHOOSE x \in keys : TRUE
         IN  scores[k] + SumScores(scores, keys \ {k})

\* CodeSwarmWorkflow._synthesis_stage: avg_score is sum / count
SynthesisStage ==
    /\ stage = "synthesis"
    /\ coordinator.name = "CodeSwarmWorkflow"
    /\ entered' = Append(entered, "synthesis")
    /\ state' = [state EXCEPT !.final_code = <<state.architecture_output,
                                               state.implementation_output,
                                               state.security_output,
                                               state.testing_output>>,
                              !.synthesis_complete = TRUE]
    /\ LET present == {k \in DOMAIN state.galileo_scores : state.galileo_scores[k] # NoScore}
       IN  report' = IF present # {}
                     THEN [complete |-> TRUE, sum |-> SumScores(state.galileo_scores, present),
                           count |-> Cardinality(present), quality_threshold_met |-> FALSE,
                           neo4j |-> FALSE, pattern_id |-> "None"]
                     ELSE [complete |-> TRUE, sum |-> DefaultScore, count |-> 1,
                           quality_threshold_met |-> FALSE, neo4j |-> FALSE,
                           pattern_id |-> "None"]
    /\ stage' = "complete"
    /\ UNCHANGED <<coordinator, loop, outputs, testing_context, observe_logger>>
    /\ UNCHANGED <<agentVars, call, ret>>

\* "if avg_score < 90" of store_successful_pattern
MinPatternScore == 90

\* Neo4jRAGClient.store_successful_pattern, avg_score being sum / 4: the id it returns
\* ("" when it skips the storage) and the database it leaves
store_successful_pattern(sum, db) ==
    IF sum < 4 * MinPatternScore
    THEN [pattern_id |-> "", db |-> db]
    ELSE [pattern_id |-> "pattern_id",
          db |-> [db EXCEPT !.CodePattern = @ \cup {[id |-> "pattern_id", sum |-> sum]}]]

\* FullCodeSwarmWorkflow.execute, "Calculate average score", "Store in Neo4j if quality
\* meets threshold" and the returned dict: avg_score is sum / 4, and
\* avg_score >= threshold is sum >= 4 * threshold; report.neo4j tells whether the
\* coordinator was constructed with a pattern store
Aggregate ==
    /\ stage = "aggregate"
    /\ coordinator.name = "FullCodeSwarmWorkflow"
    /\ entered' = Append(entered, "aggregate")
    /\ \E configured \in BOOLEAN :
        LET total == outputs["architecture"].galileo_score
                     + outputs["implementation"].galileo_score
                     + outputs["security"].galileo_score
                     + outputs["testing"].galileo_score
            met == total >= 4 * coordinator.quality_threshold
            stored == store_successful_pattern(total, neo4j)
        IN  /\ report' = [complete |-> TRUE, sum |-> total, count |-> 4,
                          quality_threshold_met |-> met, neo4j |-> configured,
                          pattern_id |-> IF configured /\ met THEN stored.pattern_id
                                         ELSE "None"]
            /\ neo4j' = IF configured /\ met THEN stored.db ELSE neo4j
    /\ stage' = "complete"
    /\ UNCHANGED <<coordinator, loop, outputs, state, testing_context, observe_logger>>
    /\ UNCHANGED <<cfg, pc, loopVars, wf, provider, run_number, call, ret>>

WorkflowNext ==
    \/ ArchitectureStage
    \/ ParallelStart
    \/ \E a \in ParallelAgents : LoopEvaluates(a)
    \/ \E a \in ParallelAgents : UploadReturns(a)
    \/ \E a \in ParallelAgents : LoopEnds(a)
    \/ GatherReturns
    \/ GatherRaises
    \/ TestingStage
    \/ SynthesisStage
    \/ Aggregate

WorkflowSpec == WorkflowInit /\ [][WorkflowNext]_vars

(***************************************************************************)
(* A second run on the same coordinator ("refinement_result = await        *)
(* workflow.execute(...)" in codeswarm.py): the agents were created once,  *)
(* in the coordinator's constructor, so execute is called again on the     *)
(* same agent object.                                                      *)
(***************************************************************************)
\* the largest number of runs made on one coordinator
MaxRuns == 2

\* the previous run has ended, its deployment step included
RunEnded ==
    \/ pc = "raised"
    \/ /\ pc = "returned"
       /\ cfg.agent # "implementation" \/ IsNone(result) \/ wf.stage # "pending"

\* self.model at the start of the next execute call: line 358 assigned it,
\* and nothing assigns it again ("original_model = self.model" is only read
\* into a local that is never used)
self_model(current, configured) == current

\* execute's locals are initialised again, the attributes of the agent are not
ExecuteAgain ==
    /\ RunEnded
    /\ run_number < MaxRuns
    /\ run_number' = run_number + 1
    /\ pc' = "loop"
    /\ iteration' = 0
    /\ best_output' = None
    /\ best_score' = 0
    /\ first_iteration_score' = 0
    /\ model' = self_model(model, ConfiguredModel(cfg.agent))
    /\ model_attempt_number' = 1
    /\ last_code' = <<>>
    /\ last_validation_error' = last_validation_error
    /\ result' = None
    /\ error' = "none"
    /\ prompt' = NoPrompt
    /\ calls' = [m \in Models |-> 0]
    /\ tried' = <<>>
    /\ last' = NoIteration
    /\ reached' = None
    /\ afterReach' = 0
    /\ produced' = FALSE
    /\ scored' = FALSE
    /\ provider' = NoProviderError
    /\ wf' = [wf EXCEPT !.stage = "pending", !.arg = None, !.files = None,
                        !.run_command = ""]
    /\ UNCHANGED <<cfg, neo4j, coordinatorVars, call, ret>>

(***************************************************************************)
(* The functions of the program called on their own: call holds the        *)
(* function and its arguments, ret what the call returned once it has.     *)
(***************************************************************************)
(* The start of a run: retrieval, the conditional vision stage, and the    *)
(* entry of the architecture stage.  The arguments of run / execute are    *)
(* kept in call.                                                           *)
(***************************************************************************)
\* image_path: Optional[str]
ImagePaths == {None, Some(""), Some("sketch.png")}

\* "if image_path:"
Truthy(image_path) == IsSome(image_path) /\ Val(image_path) # ""

visual_keywords ==
    {"sketch", "mockup", "screenshot", "image", "picture", "design", "figma", "wireframe",
     "ui", "layout", "photo", "drawing", "diagram"}

needs_vision_for_web(task, context) ==
    \/ Truthy(context.image_path)
    \/ detect_task_type(task) = "web_frontend"

\* VisionAgent.needs_vision; the state handed to it has no "screenshot" key
needs_vision(task, context) ==
    \/ Truthy(context.image_path)
    \/ any_in(visual_keywords, lower(task))

RouteInit ==
    /\ AgentIdle
    /\ call \in [fn : {"run"}, task : Tasks, image_path : ImagePaths]
    /\ ret = [done |-> FALSE]
    /\ coordinator \in Coordinators
    /\ stage = "rag_retrieve"
    /\ entered = <<>>
    /\ loop = [a \in ParallelAgents |-> "idle"]
    /\ outputs = [a \in Agents |-> NotRun]
    /\ state = InitialState(NoScore)
    /\ testing_context = NoContext
    /\ report = NoReport
    /\ observe_logger = EmptyLogger

\* CodeSwarmWorkflow._rag_retrieve_stage followed by the conditional edge
\* _should_use_vision; FullCodeSwarmWorkflow.execute, steps 2 to 4: its retrieval
\* and documentation search are not guarded, and vision is run "if image_path"
RagRetrieveStage ==
    /\ stage = "rag_retrieve"
    /\ entered' = Append(entered, "rag_retrieve")
    /\ IF coordinator.name = "CodeSwarmWorkflow"
       THEN stage' = IF needs_vision(call.task, [image_path |-> call.image_path])
                     THEN "vision_analyze"
                     ELSE "architecture"
       ELSE \E retrieved \in {"patterns", "raised"} :
               stage' = IF retrieved = "raised" THEN "aborted"
                        ELSE IF Truthy(call.image_path) THEN "vision_analyze"
                        ELSE "architecture"
    /\ UNCHANGED <<coordinator, loop, outputs, state, testing_context, report, observe_logger>>
    /\ UNCHANGED <<agentVars, call, ret>>

\* CodeSwarmWorkflow._vision_analyze_stage; FullCodeSwarmWorkflow.execute, step 4
VisionAnalyzeStage ==
    /\ stage = "vision_analyze"
    /\ entered' = Append(entered, "vision_analyze")
    /\ \E r \in ExecuteOutcomes("implementation") :
        IF coordinator.name = "CodeSwarmWorkflow"
        THEN /\ state' = IF Truthy(call.image_path) /\ r.kind = "output"
                         THEN [state EXCEPT !.galileo_scores["vision"] =
                                                score_or_default(r.galileo_score)]
                         ELSE state
             /\ stage' = "architecture"
        ELSE /\ state' = state
             /\ stage' = IF r.kind = "output" THEN "architecture" ELSE "aborted"
    /\ UNCHANGED <<coordinator, loop, outputs, testing_context, report, observe_logger>>
    /\ UNCHANGED <<agentVars, call, ret>>

RouteNext ==
    \/ RagRetrieveStage
    \/ VisionAnalyzeStage
    \/ ArchitectureStage

RouteSpec == RouteInit /\ [][RouteNext]_vars

(***************************************************************************)
\* the largest iterations_completed a call of should_fallback is made with
MaxCompleted == MaxIterations + 1

\* file maps: at most two files, each with a body of one line
PathLib == <<"l", "i", "b", "/", "i", "n", "d", "e", "x", ".", "t", "s">>
RefLib == <<".", "/", "l", "i", "b">>

FileMaps ==
    LET FilePaths == {PathA, PathB, PathLib, PackageJson}
        FileBodies == {<<Text("js")>>, <<Text("vite")>>, <<Import("es", RefA)>>,
                       <<Import("es", RefMissing)>>, <<Import("bare", RefMissing)>>,
                       <<Import("es", RefLib)>>}
        File == [path : FilePaths, content : FileBodies]
    IN  {<<f>> : f \in File}
        \cup {fg \in {<<f, g>> : f \in File, g \in File} : fg[1].path # fg[2].path}

\* a completion that gives each file of files under a "// file:" marker
RECURSIVE as_raw_text(_)
as_raw_text(files) ==
    IF files = <<>> THEN <<>>
    ELSE <<Marker("//", Head(files).path)>> \o Head(files).content \o as_raw_text(Tail(files))

\* raw completion texts: every text of at most MaxLines lines over RawLines
MaxLines == 3

RawLines ==
    {Marker("//", PathA), Marker("#", PathB), Fence("js"), Fence(""), Text("js"),
     Text("plain"), Blank, Reasoning}

RawTexts == UNION {[1..n -> RawLines] : n \in 0..MaxLines}

\* code handed to _parse_code_to_files: every text of at most MaxLines lines whose
\* markers name a relative path, a rooted path, a drive path and a path with two drives
PathDrive == <<"C", ":", "/", "x", ".", "j", "s">>
PathTwoDrives == <<"C", ":", "/", "C", ":", "/", "x", ".", "j", "s">>

CodeTexts ==
    LET CodeLines == {Marker("#", PathA), Marker("#", PathAbs), Marker("#", PathDrive),
                      Marker("#", PathTwoDrives), Text("js"), Blank}
    IN  UNION {[1..n -> CodeLines] : n \in 0..MaxLines}

CallInit ==
    /\ AgentIdle
    /\ CoordinatorIdle
    /\ ret = [done |-> FALSE]
    /\ \/ call \in [fn : {"get_next_model"}, current_model : Models, task_type : TaskTypes,
                    attempts_with_current : {1}]
       \/ call \in [fn : {"should_fallback"}, iterations_completed : 0..MaxCompleted,
                    max_iterations : 1..MaxIterations, best_score : Scores,
                    quality_threshold : QualityThresholds, score_improvement : {-1, 0, 1}]
       \/ call \in [fn : {"detect_task_type"}, task : Tasks]
       \/ call \in [fn : {"_parse_response"}, agent : {"architecture", "implementation"},
                    content : RawTexts]
       \/ call \in [fn : {"parse_files"}, content : RawTexts]
       \/ call \in [fn : {"_parse_code_to_files"}, self : {"ImplementationAgent",
                    "FullCodeSwarmWorkflow"}, code : CodeTexts]
       \/ call \in [fn : {"_validate_file_imports"}, files : FileMaps]
       \/ call \in [fn : {"validate"}, content : {as_raw_text(files) : files \in FileMaps}]
       \/ call \in [fn : {"complete"}, outcomes : [1..max_retries -> RequestOutcomes]]

\* the call returns value
Return(value) ==
    /\ ~ret.done
    /\ ret' = [done |-> TRUE, value |-> value]
    /\ UNCHANGED <<agentVars, coordinatorVars, call>>

CallGetNextModel ==
    /\ call.fn = "get_next_model"
    /\ Return(get_next_model(call.current_model, call.task_type, call.attempts_with_current))

CallShouldFallback ==
    /\ call.fn = "should_fallback"
    /\ Return(should_fallback(call.iterations_completed, call.max_iterations, call.best_score,
                              call.quality_threshold, call.score_improvement))

CallDetectTaskType ==
    /\ call.fn = "detect_task_type"
    /\ Return(detect_task_type(call.task))

CallParseResponse ==
    /\ call.fn = "_parse_response"
    /\ Return(_parse_response(call.agent, call.content))

CallParseFiles ==
    /\ call.fn = "parse_files"
    /\ Return(parse_files(call.content))

\* the dict a caller of _validate_file_imports holds once the call has returned: the
\* function reads files (files.items(), "in files") and assigns to no key of it
files_after_popping(files) == SubSeq(files, 1, Len(files) - 1)

files_after_validation(files) == files

\* the first call returns the list of missing references; ret.files is the caller's dict
CallValidateFileImports ==
    /\ call.fn = "_validate_file_imports"
    /\ ~ret.done
    /\ ret' = [done |-> TRUE, value |-> validate_file_imports(call.files),
               files |-> files_after_validation(call.files), again |-> FALSE]
    /\ UNCHANGED <<agentVars, coordinatorVars, call>>

\* the caller validates the same dict a second time
CallValidateFileImportsAgain ==
    /\ call.fn = "_validate_file_imports"
    /\ ret.done
    /\ ~ret.again
    /\ ret' = [ret EXCEPT !.again = TRUE] @@ [second |-> validate_file_imports(ret.files)]
    /\ UNCHANGED <<agentVars, coordinatorVars, call>>

\* ImplementationAgent.execute from _parse_response to the end of its try block
CallValidate ==
    /\ call.fn = "validate"
    /\ Return(ImplValidation(_parse_response("implementation", call.content).code))

CallParseCodeToFiles ==
    /\ call.fn = "_parse_code_to_files"
    /\ Return(IF call.self = "ImplementationAgent"
              THEN parse_code_to_files(call.code)
              ELSE wf_parse_code_to_files(call.code))

CallComplete ==
    /\ call.fn = "complete"
    /\ Return(complete(call.outcomes))

CallNext ==
    \/ CallComplete
    \/ CallGetNextModel
    \/ CallShouldFallback
    \/ CallDetectTaskType
    \/ CallParseResponse
    \/ CallParseFiles
    \/ CallValidateFileImports
    \/ CallValidateFileImportsAgain
    \/ CallValidate
    \/ CallParseCodeToFiles

CallSpec == CallInit /\ [][CallNext]_vars

(***************************************************************************)
(* Neo4jRAGClient: the Tavily result cache.  call holds the last call made *)
(* and the cache_tavily_results calls made so far (query, results, TTL and *)
(* the day of the call), ret what the last call returned.                  *)
(***************************************************************************)
MaxDays == 2
MaxCached == 2

Queries == {"react", " React ", "vue"}
TavilyResults == {"docs_a", "docs_b"}
TtlDays == {1, 2}

\* str.strip() on spaces
RECURSIVE strip(_)
strip(query) ==
    IF query = "" THEN ""
    ELSE IF SubSeq(query, 1, 1) = " " THEN strip(SubSeq(query, 2, Len(query)))
    ELSE IF SubSeq(query, Len(query), Len(query)) = " "
    THEN strip(SubSeq(query, 1, Len(query) - 1))
    ELSE query

query_hash_unstripped(query) == <<"sha256", lower(query)>>

\* hashlib.sha256(query.lower().strip().encode()).hexdigest(): injective on the queries
query_hash(query) == <<"sha256", strip(lower(query))>>

\* json.dumps of a response of the search API, and json.loads of that text
\* the hash of each query of Queries
QueryHash == [query \in Queries |-> query_hash(query)]

json_dumps(results) == <<"json", results>>
json_loads(results_json) == results_json[2]

CacheInit ==
    /\ AgentIdle
    /\ CoordinatorIdle
    /\ call = [fn |-> "none", cached |-> <<>>]
    /\ ret = [done |-> FALSE]

\* MERGE (cache:TavilyCache {query_hash: $query_hash}) SET ...
CacheTavilyResults ==
    /\ Len(call.cached) < MaxCached
    /\ \E query \in Queries, results \in TavilyResults, ttl_days \in TtlDays :
        LET node == [query_hash |-> QueryHash[query], original_query |-> query,
                     expires_at |-> neo4j.datetime + ttl_days,
                     results_json |-> json_dumps(results)]
        IN  /\ neo4j' = [neo4j EXCEPT !.TavilyCache =
                            {c \in @ : c.query_hash # node.query_hash} \cup {node}]
            /\ call' = [fn |-> "cache_tavily_results", query |-> query,
                        cached |-> Append(call.cached,
                                          [query |-> query, results |-> results,
                                           ttl_days |-> ttl_days, at |-> neo4j.datetime])]
            /\ ret' = [done |-> TRUE, value |-> node.query_hash]
    /\ UNCHANGED <<cfg, pc, iteration, best_output, best_score, first_iteration_score, model,
                   model_attempt_number, last_code, last_validation_error, result, error,
                   prompt, calls, tried, last, reached, afterReach, produced, scored, wf,
                   provider, run_number, coordinatorVars>>

\* MATCH (cache:TavilyCache {query_hash: $query_hash}) WHERE cache.expires_at > datetime()
GetCachedTavilyResults ==
    /\ \E query \in Queries :
        LET records == {c \in neo4j.TavilyCache :
                            c.query_hash = QueryHash[query] /\ c.expires_at > neo4j.datetime}
        IN  /\ call' = [fn |-> "get_cached_tavily_results", query |-> query,
                        cached |-> call.cached]
            /\ ret' = [done |-> TRUE,
                       value |-> IF records # {}
                                 THEN Some(json_loads((CHOOSE c \in records : TRUE).results_json))
                                 ELSE None]
    /\ UNCHANGED <<agentVars, coordinatorVars>>

\* a day passes between two calls
DayPasses ==
    /\ neo4j.datetime < MaxDays
    /\ neo4j' = [neo4j EXCEPT !.datetime = @ + 1]
    /\ call' = [fn |-> "none", cached |-> call.cached]
    /\ ret' = [done |-> FALSE]
    /\ UNCHANGED <<cfg, pc, iteration, best_output, best_score, first_iteration_score, model,
                   model_attempt_number, last_code, last_validation_error, result, error,
                   prompt, calls, tried, last, reached, afterReach, produced, scored, wf,
                   provider, run_number, coordinatorVars>>

CacheNext ==
    \/ CacheTavilyResults
    \/ GetCachedTavilyResults
    \/ DayPasses

CacheSpec == CacheInit /\ [][CacheNext]_vars

(***************************************************************************)
(* The program: one execute call of one agent, then the deployment step    *)
(***************************************************************************)
Next ==
    \/ BaseEmpty
    \/ BaseScored
    \/ BaseEvalRaises
    \/ BaseNoEvaluator
    \/ ImplEmpty
    \/ ImplInvalid
    \/ ImplScored
    \/ ImplEvalRaises
    \/ ImplNoEvaluator
    \/ CompleteRaises
    \/ Deploy

Spec == Init /\ [][Next]_vars

\* "while iteration < max_iterations [and model_attempt_number <= max_model_attempts]"
LoopTest == BaseLoop \/ ImplLoop

\* an iteration of the loop has been run: every action of Next but Deploy is one
\* iteration, which makes a completion call (counted in calls) or, when the call
\* raises, leaves the loop
IterationRun == LoopTest /\ (calls' # calls \/ pc' # pc)

\* execute is one coroutine: when the provider call and the evaluator call of an
\* iteration return (or raise), the iteration is carried to its end.  This is weak
\* fairness, WF_vars, of the iteration actions, with their ENABLED written out: an
\* iteration can be run exactly when the loop test holds (the test is all that
\* CompleteRaises asks for, and every iteration action asks for it)
Fairness == <>[]LoopTest => []<><<IterationRun>>_vars

LiveSpec == Spec /\ Fairness

\* two runs on one coordinator, seen from one of its agents; each execute call
\* is made with max_iterations = 1
RerunInit == Init /\ cfg.max_iterations = 1

RerunNext == Next \/ ExecuteAgain

RerunSpec == RerunInit /\ [][RerunNext]_vars

(***************************************************************************)
(* Properties                                                              *)
(***************************************************************************)
\* the file map the code of an output parses into, if it parses and its imports resolve
Validated(out) ==
    LET parsed == parse_code_to_files(out.code)
    IN  /\ parsed.ok
        /\ parsed.files # <<>>
        /\ validate_file_imports(parsed.files) = <<>>

ParsedFilesSound(o) ==
    IsSome(o) =>
        /\ IsSome(Val(o).parsed_files) <=> Validated(Val(o))
        /\ IsSome(Val(o).parsed_files) =>
               Val(Val(o).parsed_files) = parse_code_to_files(Val(o).code).files

\* C1: every output the implementation agent's execute returns or holds as its best
\* output has parsed_files set if and only if the code of that same output parses
\* into a non-empty file map whose imports all resolve, and parsed_files is that map
C1_ParsedFilesIffValidated ==
    cfg.agent = "implementation" =>
        /\ ParsedFilesSound(best_output)
        /\ pc = "returned" => ParsedFilesSound(result)

\* the call returned, as the best output, the validated output of an iteration that
\* was neither the first nor the last one
C1_Witness ==
    /\ cfg.agent = "implementation"
    /\ pc = "returned"
    /\ IsSome(result)
    /\ IsSome(Val(result).parsed_files)
    /\ Val(result).iterations > 1
    /\ Val(result).iterations < iteration

\* the deployment step called _deploy_to_daytona
DeploymentRan == wf.stage \in {"deployed", "failed"}

\* C2: the deployment step runs only when the implementation output has parsed_files
\* set, the file map handed to the deployment target is exactly that parsed_files
\* map, and deployment never takes the raw code text to derive the files from it
C2_DeployTakesParsedFiles ==
    DeploymentRan =>
        /\ IsSome(result)
        /\ IsSome(Val(result).parsed_files)
        /\ IsSome(wf.files) => wf.files = Val(result).parsed_files
        /\ IsNone(wf.arg)

\* C3: the first iteration whose score is at or above quality_threshold ends the
\* loop: its output is what execute returns, and no completion or evaluator call is
\* made after it
C3_FirstReachingThresholdWins ==
    /\ afterReach = 0
    /\ IsSome(reached) => pc = "returned" /\ result = reached

\* the threshold is reached exactly, after earlier iterations below it and on a
\* model the call fell back to
C3_Witness ==
    /\ IsSome(reached)
    /\ Val(reached).galileo_score = QualityThreshold
    /\ Val(reached).iterations > 1
    /\ Len(tried) > 1
    /\ pc = "returned"

\* C4: when the loop ends on an evaluated iteration with no score at or above
\* quality_threshold and at least one iteration was scored, execute returns the best
\* output recorded so far: it does not return null and does not raise, whatever the
\* starting model and max_iterations
C4_ReturnsBestBelowThreshold ==
    (pc # "loop" /\ scored /\ IsNone(reached) /\ last.evaluated) =>
        /\ pc = "returned"
        /\ IsSome(result)
        /\ IsSome(best_output) => result = best_output

\* C5: an iteration whose parsed code is empty is not evaluated; the loop then
\* either goes on, or, on the last iteration of the last model, execute fails with
\* the exhausted-models error instead of returning a value
C5_EmptyCodeRetriesOrFails ==
    last.kind = "empty" =>
        /\ ~last.evaluated
        /\ pc = "loop" \/ (pc = "raised" /\ error = "empty_code")

\* C6: execute returns null exactly when no iteration of any model produced an
\* output: it then returns null instead of raising, and it returns null in no
\* other situation
C6_NullIffNoOutput ==
    pc # "loop" => ((pc = "returned" /\ IsNone(result)) <=> ~produced)

TotalCalls ==
    calls["gpt-5-pro"] + calls["claude-opus-4.1"] + calls["claude-sonnet-4.5"]
    + calls["grok-4"]

\* C7: one execute call invokes at most 3 distinct models, makes at most
\* max_iterations completion calls with each of them and at most 3 * max_iterations
\* in all, also when the starting model is not in the category's sequence
C7_AtMostThreeModels ==
    /\ Len(tried) <= 3
    /\ \A m \in Models : calls[m] <= cfg.max_iterations
    /\ TotalCalls <= 3 * cfg.max_iterations

\* a call that started with a model outside the sequence used up the whole budget of
\* three models
C7_Witness ==
    /\ cfg.agent = "testing"
    /\ cfg.max_iterations > 1
    /\ Len(tried) = 3
    /\ TotalCalls = 3 * cfg.max_iterations

\* C8: in BaseAgent.execute, when the current model has used all max_iterations
\* iterations, the best score is still below quality_threshold and a next model
\* exists in the category's sequence, the loop does not return: it switches to that
\* model, resets the iteration counter to 0 and goes on to its first iteration
C8_ExhaustedModelFallsBack ==
    [][(/\ pc = "loop"
        /\ cfg.agent # "implementation"
        /\ last'.kind = "scored"
        /\ last'.iteration = cfg.max_iterations
        /\ best_score' < cfg.quality_threshold
        /\ IsSome(get_next_model(model, cfg.task_type, cfg.max_iterations)))
       => (/\ pc' = "loop"
           /\ model' = Val(get_next_model(model, cfg.task_type, cfg.max_iterations))
           /\ iteration' = 0)]_vars

\* C9: when validation fails on the last iteration allowed for the current model,
\* a next model exists and fewer than 3 models were tried, the loop continues with
\* that next model instead of returning or raising
C9_ValidationFailureFallsBack ==
    (/\ last.kind = "invalid"
     /\ last.iteration = cfg.max_iterations
     /\ IsSome(get_next_model(last.model, cfg.task_type, cfg.max_iterations))
     /\ Len(tried) < 3)
    => (/\ pc = "loop"
        /\ model = Val(get_next_model(last.model, cfg.task_type, cfg.max_iterations)))

PositionInSequence(m) == IndexOf(TASK_MODEL_PREFERENCES[cfg.task_type], m)

C12_BestIsEarliestMaximum ==
    [][IF pc = "loop" /\ last'.kind = "scored"
          /\ (IsNone(best_output) \/ last'.score > best_score)
       THEN /\ best_score' = last'.score
            /\ IsSome(best_output')
            /\ Val(best_output').galileo_score = last'.score
            /\ Val(best_output').iterations = last'.iteration
            /\ Val(best_output').model_used = last'.model
       ELSE /\ best_score' = best_score
            /\ best_output' = best_output]_vars

\* C13: an iteration whose evaluation raised does not fail execute, its output
\* carries the default score, and the exception by itself starts neither
\* another iteration nor a model fallback: when the default score meets the
\* threshold the call returns that output with the model unchanged, as it
\* does when no evaluator is configured
C13_EvaluatorExceptionIsNotARetry ==
    [][pc = "loop" /\ last'.kind = "eval_raised"
       => /\ pc' # "raised"
          /\ last'.score = DefaultScore
          /\ ThresholdMet(DefaultScore, cfg.quality_threshold)
             => /\ pc' = "returned"
                /\ IsSome(result')
                /\ Val(result').galileo_score = DefaultScore
                /\ model' = model]_vars


\* C14: every transient provider failure (rate limit, 5xx, timeout) is retried,
\* so a call of complete raises for such a failure only when the retry budget
\* is used up, and the iteration counter advances, execute still running,
\* only by a completion that was received
C14_TransientFailuresAreRetried ==
    [][/\ (provider'.raised /\ provider'.failure \in TransientFailures)
          => provider'.attempts = max_retries
       /\ (iteration' # iteration /\ pc' = "loop" /\ model' = model)
          => TotalCalls' = TotalCalls + 1]_vars


\* C18: a second run on the same coordinator starts each agent loop with the
\* model the agent was configured with and with no recorded validation error
C18_NoStateCarriedToNextRun ==
    [][run_number' # run_number
       => /\ model' = ConfiguredModel(cfg.agent)
          /\ last_validation_error' = None]_vars


\* the stage entered i-th in a run
StageAt(i) ==
    IF i = 1 THEN {"architecture"}
    ELSE IF i = 2 THEN {"parallel"}
    ELSE IF i = 3 THEN {"testing"}
    ELSE {"synthesis", "aggregate"}

\* C15: the stages are entered at most once and in the fixed order; the two
\* concurrent loops start only when the architecture stage has written its
\* output, and the testing loop starts only when both of them have completed,
\* with the three earlier outputs in its context
C15_StagesInOrder ==
    [][/\ \A i \in 1..Len(entered') : entered'[i] \in StageAt(i)
       /\ (stage = "parallel" /\ entered' # entered)
          => IF coordinator.name = "CodeSwarmWorkflow"
             THEN state.architecture_output # "None"
             ELSE outputs["architecture"].kind = "output"
       /\ (stage = "testing" /\ entered' # entered)
          => /\ \A a \in ParallelAgents : loop[a] \in {"returned", "raised"}
             /\ testing_context' = [architecture_output |-> "architecture",
                                    implementation_output |-> "implementation",
                                    security_output |-> "security"]]_vars

\* C16: when an agent loop has raised, no later stage is executed, nothing of
\* the failed stage is passed on, and the run is not reported as complete
C16_RaisedLoopAbortsRun ==
    /\ outputs["architecture"].kind = "raised"
       => /\ Len(entered) <= 1
          /\ ~report.complete /\ ~state.synthesis_complete
    /\ (\E a \in ParallelAgents : outputs[a].kind = "raised")
       => /\ Len(entered) <= 2
          /\ testing_context = NoContext
          /\ ~report.complete /\ ~state.synthesis_complete

\* C17: while the two loops run together no object is written by both: when a
\* loop writes to the evaluator's logger, the other loop has not written to it
\* and is not using it
C17_NoSharedWrites ==
    [][\A a \in ParallelAgents :
          (a \in observe_logger'.uploads /\ a \notin observe_logger.uploads)
          => /\ observe_logger.added \ {a} = {}
             /\ observe_logger.uploads \ {a} = {}]_vars

\* the keys of the shared state that hold a stage's result
ResultKeys ==
    {"architecture_output", "implementation_output", "security_output", "testing_output",
     "final_code", "synthesis_complete"}

\* the keys, and the entries of galileo_scores, that belong to the stage a
\* step of the coordinator executes
OwnKeys(st) ==
    IF st = "architecture" THEN {"architecture_output"}
    ELSE IF st = "gather" THEN {"implementation_output", "security_output"}
    ELSE IF st = "testing" THEN {"testing_output"}
    ELSE IF st = "synthesis" THEN {"final_code", "synthesis_complete"}
    ELSE {}

OwnAgents(st) ==
    IF st = "architecture" THEN {"architecture"}
    ELSE IF st = "gather" THEN ParallelAgents
    ELSE IF st = "testing" THEN {"testing"}
    ELSE {}

\* C19 as claimed: a stage leaves every key that an earlier stage has written
\* (a key of another stage that no longer has its initial value) unchanged
C19_EarlierKeysUnchanged ==
    [][coordinator.name = "CodeSwarmWorkflow"
       => \A k \in DOMAIN state :
             (k \notin OwnKeys(stage) /\ state[k] # InitialState(NoScore)[k])
             => state'[k] = state[k]]_vars

\* C19: a stage writes, of the result keys, only its own, and of the entries
\* of galileo_scores only its own; it leaves the result keys and the score
\* entries of the earlier stages unchanged and only adds to
\* improvement_iterations, on success and on failure paths
C19_EarlierResultsUnchanged ==
    [][coordinator.name = "CodeSwarmWorkflow"
       => /\ \A k \in ResultKeys : state'[k] # state[k] => k \in OwnKeys(stage)
          /\ \A a \in DOMAIN state.galileo_scores :
                state'.galileo_scores[a] # state.galileo_scores[a] => a \in OwnAgents(stage)
          /\ state'.improvement_iterations >= state.improvement_iterations]_vars

C19_Witness ==
    /\ coordinator.name = "CodeSwarmWorkflow"
    /\ state.architecture_output = "architecture"
    /\ state.galileo_scores["architecture"] = 80
    /\ state.implementation_output = "Error"
    /\ state.testing_output = "testing"
    /\ state.improvement_iterations = 3

\* C20: the aggregate score of a completed run is the mean of the four agent
\* scores (its sum is theirs, over a count of 4), and the threshold-met flag
\* of FullCodeSwarmWorkflow is true exactly when that mean is >= the threshold
C20_AggregateIsMeanOfFour ==
    report.complete
    => /\ report.count = 4
       /\ report.sum = outputs["architecture"].galileo_score
                       + outputs["implementation"].galileo_score
                       + outputs["security"].galileo_score
                       + outputs["testing"].galileo_score
       /\ coordinator.name = "FullCodeSwarmWorkflow"
          => (report.quality_threshold_met
              <=> report.sum >= report.count * coordinator.quality_threshold)


\* C22 as claimed: get_next_model returns the model that follows current_model
\* in the sequence of the category, and null when current_model is the last
\* element of the sequence or does not occur in it
C22_NextOrNull ==
    (call.fn = "get_next_model" /\ ret.done)
    => LET sequence == TASK_MODEL_PREFERENCES[call.task_type]
       IN  IF \E i \in 1..(Len(sequence) - 1) : sequence[i] = call.current_model
           THEN \E i \in 1..(Len(sequence) - 1) :
                   sequence[i] = call.current_model /\ ret.value = Some(sequence[i + 1])
           ELSE ret.value = None

\* C22: get_next_model returns the model that follows current_model in the
\* sequence of the category, null when current_model is the last element, and
\* the first model of the sequence when current_model does not occur in it
C22_NextOrNullOrFirst ==
    (call.fn = "get_next_model" /\ ret.done)
    => LET sequence == TASK_MODEL_PREFERENCES[call.task_type]
       IN  IF \E i \in 1..(Len(sequence) - 1) : sequence[i] = call.current_model
           THEN \E i \in 1..(Len(sequence) - 1) :
                   sequence[i] = call.current_model /\ ret.value = Some(sequence[i + 1])
           ELSE IF sequence[Len(sequence)] = call.current_model
           THEN ret.value = None
           ELSE ret.value = Some(sequence[1])

C22_Witness ==
    /\ call.fn = "get_next_model" /\ ret.done
    /\ call.current_model = "grok-4" /\ call.task_type = "database"
    /\ ret.value = Some("claude-opus-4.1")

C24_MonotonicInIterations ==
    (call.fn = "should_fallback" /\ ret.done /\ ret.value
     /\ call.best_score < call.quality_threshold)
    => \A later \in call.iterations_completed..MaxCompleted :
          should_fallback(later, call.max_iterations, call.best_score,
                          call.quality_threshold, call.score_improvement)

C24_Witness ==
    /\ call.fn = "should_fallback" /\ ret.done /\ ret.value
    /\ call.best_score < call.quality_threshold
    /\ call.iterations_completed = call.max_iterations - 1
    /\ call.score_improvement = 0
    /\ call.iterations_completed < MaxCompleted



\* C25: detect_task_type returns exactly one category for every task: the first of Web,
\* Backend, DataScience, Mobile, DevOps, Database whose keyword list has a keyword occurring
\* in the lower-cased task, and General if and only if no keyword of any list occurs.
CategoryOrder ==
    <<[type |-> "web_frontend", kws |-> keywords.web_keywords],
      [type |-> "backend_api", kws |-> keywords.backend_keywords],
      [type |-> "data_science", kws |-> keywords.ds_keywords],
      [type |-> "mobile", kws |-> keywords.mobile_keywords],
      [type |-> "devops", kws |-> keywords.devops_keywords],
      [type |-> "database", kws |-> keywords.db_keywords]>>

C25_FirstCategoryWithHit ==
    (call.fn = "detect_task_type" /\ ret.done) =>
        LET hit == {i \in 1..Len(CategoryOrder) :
                        \E kw \in CategoryOrder[i].kws : Contains(lower(call.task), kw)}
        IN  /\ ret.value \in TaskTypes
            /\ ret.value = "general" <=> hit = {}
            /\ hit # {} =>
                  \E i \in hit : /\ \A j \in hit : i <= j
                                 /\ ret.value = CategoryOrder[i].type

\* a task with a Web keyword and a Backend keyword is classified Web
C25_Witness ==
    /\ call.fn = "detect_task_type"
    /\ call.task = "API HTML"
    /\ ret.done
    /\ ret.value = "web_frontend"

\* the no-keyword case of C25
C25_WitnessGeneral ==
    /\ call.fn = "detect_task_type"
    /\ call.task = "Sort numbers"
    /\ ret.done
    /\ ret.value = "general"

\* C21: the vision-analysis stage is entered only in a run that was given an image or
\* whose task text contains a visual-design keyword; in a run with neither, the
\* architecture stage is entered right after retrieval.
C21_VisionOnlyForImageOrKeyword ==
    (call.fn = "run") =>
        LET image == IsSome(call.image_path) /\ Val(call.image_path) # ""
            keyword == \E kw \in visual_keywords : Contains(lower(call.task), kw)
            Entered(name) == \E i \in 1..Len(entered) : entered[i] = name
        IN  /\ Entered("vision_analyze") => (image \/ keyword)
            /\ ~(image \/ keyword) =>
                  /\ Entered("rag_retrieve") => stage \in {"architecture", "aborted"} \/ Len(entered) > 1
                  /\ Len(entered) > 1 => entered[2] = "architecture"

\* a run without an image whose task has a visual keyword has entered the vision stage
C21_Witness ==
    /\ call.fn = "run"
    /\ call.image_path = None
    /\ call.task = "Sketch game"
    /\ coordinator.name = "CodeSwarmWorkflow"
    /\ entered = <<"rag_retrieve", "vision_analyze", "architecture">>

\* a run with neither image nor keyword has gone from retrieval to architecture
C21_WitnessDirect ==
    /\ call.fn = "run"
    /\ call.image_path = None
    /\ call.task = "Sort numbers"
    /\ entered = <<"rag_retrieve", "architecture">>

C27_RoundTrip ==
    (/\ call.fn = "parse_files"
     /\ ret.done
     /\ \E i \in 1..Len(call.content) : IsResponseMarker(call.content[i])) =>
        /\ ret.value.raised = "none"
        /\ \A i \in 1..Len(call.content) :
              IsResponseMarker(call.content[i]) =>
                  /\ HasKey(ret.value.files, call.content[i].a)
                  /\ LET body == Get(ret.value.files, call.content[i].a)
                     IN  /\ body # <<>>
                         /\ \A j \in 1..Len(body) : body[j].k # "fence"

\* C28: when a file of the map imports a local relative path and neither the resolved
\* path nor any suffix or index variant of it is a key of the map, the list
\* _validate_file_imports returns contains the pair (source file, import path as written).
C28_MissingReported ==
    (call.fn = "_validate_file_imports" /\ ret.done) =>
        \A f \in 1..Len(call.files) : \A l \in 1..Len(call.files[f].content) :
            LET line == call.files[f].content[l]
                resolved == ResolveImport(call.files[f].path, line.a)
                pp == PossiblePaths(resolved)
            IN  (/\ line.k = "import"
                 /\ StartsWith(line.a, <<".", "/">>)
                 /\ \A i \in 1..Len(pp) : ~HasKey(call.files, pp[i])) =>
                    \E m \in 1..Len(ret.value) : ret.value[m] = <<call.files[f].path, line.a>>

\* C29: a completion whose files' local imports all resolve to a key of the map, literally
\* or through a suffix or index variant (.js, .ts, .tsx, /index.*), relative to the
\* importing file's directory, is validated ok, and the map has exactly the files named
\* by the markers.
C29_ResolvingImportsAreOk ==
    (call.fn = "validate" /\ ret.done) =>
        \A files \in FileMaps :
            LET Variants(path) ==
                    {path} \cup {path \o suffix : suffix \in
                                    { <<".", "j", "s">>, <<".", "t", "s">>, <<".", "t", "s", "x">>,
                                      <<"/", "i", "n", "d", "e", "x", ".", "j", "s">>,
                                      <<"/", "i", "n", "d", "e", "x", ".", "t", "s">>,
                                      <<"/", "i", "n", "d", "e", "x", ".", "t", "s", "x">> }}
                Resolves(f, line) ==
                    \E path \in Variants(ResolveImport(files[f].path, line.a)) :
                        HasKey(files, path)
            IN  (/\ call.content = as_raw_text(files)
                 /\ \A f \in 1..Len(files) : \A l \in 1..Len(files[f].content) :
                        files[f].content[l].k = "import" => Resolves(f, files[f].content[l])) =>
                    /\ ret.value.kind = "ok"
                    /\ Keys(ret.value.files) = Keys(files)

\* C30: validation includes a completeness check: a map that has package.json mentioning
\* vite and neither index.html nor src/main.* is not accepted as valid (the outcome is
\* missing-required-files and parsed_files is not set).
C30_RequiredFilesChecked ==
    (call.fn = "validate" /\ ret.done) =>
        \A files \in FileMaps :
            (/\ call.content = as_raw_text(files)
             /\ HasKey(files, PackageJson)
             /\ Mentions(Get(files, PackageJson), "vite")
             /\ ~\E f \in 1..Len(files) :
                    \/ EndsWith(files[f].path, DotHtml)
                    \/ StartsWith(files[f].path, SrcSlash \o <<"m", "a", "i", "n", ".">>)) =>
                ret.value.kind # "ok"

\* C31: a file map returned by _parse_code_to_files has only relative paths as keys (none
\* starts with "/" or with a drive prefix) and only non-empty trimmed contents as values;
\* when no file results the parser fails (ValueError) instead of returning an empty map.
C31_RelativeKeysNonEmptyValues ==
    (call.fn = "_parse_code_to_files" /\ ret.done) =>
        IF ret.value.ok
        THEN /\ ret.value.files # <<>>
             /\ \A i \in 1..Len(ret.value.files) :
                   LET file == ret.value.files[i]
                   IN  /\ file.path = <<>> \/ file.path[1] # "/"
                       /\ ~(Len(file.path) > 1 /\ file.path[2] = ":")
                       /\ file.content # <<>>
                       /\ file.content[1].k # "blank"
                       /\ file.content[Len(file.content)].k # "blank"
        ELSE ret.value.files = <<>>

SameQuery ==
    [q \in Queries |-> {r \in Queries : lower(strip(r)) = lower(strip(q))}]

C33_CacheHitUntilTtl ==
    /\ \A c, d \in neo4j.TavilyCache : c.query_hash = d.query_hash => c = d
    /\ (call.fn = "get_cached_tavily_results" /\ ret.done) =>
          LET same == {i \in 1..Len(call.cached) : call.cached[i].query \in SameQuery[call.query]}
          IN  IF same = {} THEN ret.value = None
              ELSE LET i == CHOOSE i \in same : \A j \in same : j <= i
                       entry == call.cached[i]
                   IN  IF neo4j.datetime < entry.at + entry.ttl_days
                       THEN ret.value = Some(entry.results)
                       ELSE ret.value = None

\* a query cached as "react" is found under " React " before its TTL has elapsed
C33_Witness ==
    /\ call.fn = "get_cached_tavily_results"
    /\ call.query = " React "
    /\ Len(call.cached) = 2
    /\ call.cached[1].query = " React "
    /\ call.cached[2].query = "react"
    /\ call.cached[2].results = "docs_b"
    /\ ret.done
    /\ ret.value = Some("docs_b")
    /\ Cardinality(neo4j.TavilyCache) = 1

\* C37: in a run of FullCodeSwarmWorkflow a pattern is persisted to the pattern store and
\* a non-empty pattern id is reported if and only if a store is configured and the run's
\* average score is at least the coordinator's quality threshold, whatever that threshold.
C37_StoredIffThresholdMet ==
    (report.complete /\ coordinator.name = "FullCodeSwarmWorkflow") =>
        LET persisted == \E p \in neo4j.CodePattern : p.sum = report.sum
            reported == report.pattern_id \notin {"None", ""}
            due == report.neo4j /\ report.sum >= report.count * coordinator.quality_threshold
        IN  /\ persisted <=> due
            /\ reported <=> due

\* C34: the prompt of a model's first iteration is the plain task prompt; the prompt of
\* every later iteration is an improvement prompt that quotes the previous best code and
\* states its score, and it describes a validation error if and only if the iteration
\* just before it failed validation.
C34_PromptFollowsFailure ==
    [][(last' # last /\ last'.iteration = iteration + 1) =>
          IF last'.iteration = 1
          THEN prompt' = [kind |-> "task", preview |-> <<>>, score |-> NoScore, error |-> None]
          ELSE /\ prompt'.kind = "improvement"
               /\ IsSome(best_output) => /\ prompt'.preview = Val(best_output).code
                                         /\ prompt'.score = best_score
               /\ IsSome(prompt'.error) <=> last.kind = "invalid"]_vars

\* C38: when the last allowed iteration of the implementation agent fails on missing
\* file references, the error execute raises and the validation error the agent keeps
\* both name the missing file references, not a parse failure.
C38_MissingReferencesReported ==
    (/\ cfg.agent = "implementation"
     /\ pc = "raised"
     /\ last.kind = "invalid"
     /\ IsSome(last.error)
     /\ Val(last.error).type = "missing_files")
        => /\ error = "missing_files"
           /\ IsSome(last_validation_error)
           /\ Val(last_validation_error).type = "missing_files"

\* C35: the implementation agent takes the decisions of BaseAgent.execute: after an
\* iteration whose output was produced (and validated) and did not meet the threshold,
\* it goes on to the next iteration while iterations remain, switches to the next
\* model where BaseAgent would, and returns otherwise.
C35_SameDecisionsAsBaseAgent ==
    [][(/\ pc = "loop"
        /\ last' # last
        /\ last'.kind \in {"scored", "eval_raised"}
        /\ ~(last'.kind = "scored" /\ ThresholdMet(last'.score, cfg.quality_threshold)))
       => LET it == last'.iteration
              fis == IF last'.kind = "scored" /\ it = 1
                     THEN last'.score ELSE first_iteration_score
              next_model == get_next_model(model, cfg.task_type, it)
              switch == /\ cfg.enable_model_fallback
                        /\ best_score' < cfg.quality_threshold
                        /\ should_fallback(it, cfg.max_iterations, best_score',
                                           cfg.quality_threshold, best_score' - fis)
                        /\ IsSome(next_model)
                        /\ Val(next_model) # model
          IN  IF it < cfg.max_iterations
              THEN pc' = "loop" /\ model' = model /\ iteration' = it
              ELSE IF switch
              THEN model' = Val(next_model) /\ iteration' = 0
              ELSE pc' = "returned" /\ model' = model]_vars

\* the same, of the agents that run BaseAgent.execute itself
C35_BaseAgentDecisions ==
    [][cfg.agent # "implementation" => C35_SameDecisionsAsBaseAgent!1]_vars

\* the requests of a call of complete before the given one all failed with a
\* connection or timeout error
FailedUpTo(outcomes, k) == \A j \in 1..k : outcomes[j] \in ClientErrors

\* C36: complete makes at most max_retries attempts; after the k-th failed attempt
\* with a connection or timeout error it waits 2^(k-1) seconds before the next one;
\* after the last failed attempt it raises the last error without sleeping; any
\* other exception is raised at once, without a retry.
C36_RetriesWithBackoff ==
    (call.fn = "complete" /\ ret.done) =>
        LET r == ret.value
            o == call.outcomes
        IN  /\ r.attempts \in 1..max_retries
            /\ FailedUpTo(o, r.attempts - 1)
            /\ Len(r.slept) = r.attempts - 1
            /\ \A k \in 1..Len(r.slept) : r.slept[k] = 2 ^ (k - 1)
            /\ FailedUpTo(o, max_retries) =>
                    /\ r.raised
                    /\ r.attempts = max_retries
                    /\ r.failure = o[max_retries]
            /\ \A k \in 1..max_retries :
                    (FailedUpTo(o, k - 1) /\ o[k] = "http_error") =>
                        r.raised /\ r.attempts = k /\ r.failure = "http_error"
            /\ r.raised <=> o[r.attempts] # "ok"

\* a call whose every attempt timed out has slept 1 s and 2 s and raised the timeout
C36_Witness ==
    /\ call.fn = "complete"
    /\ ret.done
    /\ \A k \in 1..max_retries : call.outcomes[k] = "timeout"
    /\ ret.value.raised
    /\ ret.value.slept = <<1, 2>>

\* C39: with no evaluator configured, the first output whose code is present (and,
\* for the implementation agent, validated) is returned at once with the default
\* score: no iteration and no model switch follows it.
C39_NoEvaluatorReturnsFirstOutput ==
    (~cfg.has_evaluator /\ produced) =>
        /\ pc = "returned"
        /\ last.kind = "unscored"
        /\ IsSome(result)
        /\ Val(result).galileo_score = DefaultScore
        /\ Val(result).code # <<>>
        /\ Val(result).iterations = last.iteration
        /\ Val(result).model_used = last.model
        /\ model = last.model
        /\ iteration = last.iteration
        /\ cfg.agent = "implementation" => IsSome(Val(result).parsed_files)
        /\ ~scored
        /\ IsNone(best_output)

\* the output came on a second iteration, after one that gave no usable code
C39_Witness ==
    /\ ~cfg.has_evaluator
    /\ produced
    /\ pc = "returned"
    /\ last.iteration = 2
    /\ IsSome(result)
    /\ Val(result).galileo_score = DefaultScore

\* C40: every call of execute ends, by returning or by raising, when each provider
\* call and each evaluator call returns; the starting model may be outside the
\* sequence of the task's category, and get_next_model may name the model in use.
C40_ExecuteTerminates == <>(pc \in {"returned", "raised"})

\* execute has ended after running three models, the first of them not in the
\* sequence of the task's category
C40_Witness ==
    /\ pc \in {"returned", "raised"}
    /\ Len(tried) = 3
    /\ IndexOf(get_model_sequence(cfg.task_type), tried[1]) = 0
    /\ TotalCalls = 3 * cfg.max_iterations
    /\ cfg.max_iterations = MaxIterations

=============================================================================
